---- MODULE Spec2Model ----
(***************************************************************************)
(* A model of the windows-hypervisor crate: the typed layer over the       *)
(* Windows Hypervisor Platform (the WHv calls).                            *)
(*                                                                         *)
(*   - the partition lifecycle (PartitionBuilder -> Partition), the shared *)
(*     Arc<PartitionHandle>, virtual processors and their drops;           *)
(*   - VirtualProcessor::run and the decoding of the exit context;         *)
(*   - the register access layer (Register::ty, get/set registers);        *)
(*   - the partition property codec (PartitionProperty <-> raw union);     *)
(*   - the register value codec (RegisterVal <-> raw union);               *)
(*   - memory regions: their construction, mapping and release.            *)
(*                                                                         *)
(* Native calls are external: each one either succeeds or returns an       *)
(* ordinary failure, chosen nondeterministically.  A Rust panic            *)
(* (unreachable!(), todo!(), unwrap() on Err) is the result kind "Panic".  *)
(***************************************************************************)
EXTENDS Integers, Sequences, FiniteSets, TLC

VARIABLES
  builder,     \* the PartitionBuilder value: "none" | "live" | "consumed"
  partition,   \* the Partition value: [st, memory_regions]
  vps,         \* the VirtualProcessor values: id -> [st, index]
  strong,      \* strong count of the Arc<PartitionHandle>
  native,      \* the hypervisor's side: [state, props, written, setups, vcpus, deletes]
  op,          \* the public operation performed last: [name, arg]
  ret,         \* what it returned: [kind, val]
  calls,       \* the native calls it issued, in order
  arcs,        \* Arc<PartitionHandle> clones the caller holds directly
  regions,     \* the MemoryRegion values: id -> [st, address, .., backing, frees, unmaps]
  input,       \* pure-function specifications: the argument drawn by Init
  output       \* pure-function specifications: the value computed from it

vars == <<builder, partition, vps, strong, native, op, ret, calls, arcs, regions, input, output>>

lifeVars == <<builder, partition, vps, strong, native, op, ret, calls, arcs, regions>>

pureVars == <<input, output>>

(***************************************************************************)
(* Bounds of the model.                                                    *)
(***************************************************************************)
\* VirtualProcessor values that can be created in one behaviour
MaxVps == 2

\* largest ProcessorCount configured; vCPU indices range over 0..MaxCount+1
MaxCount == 2

\* longest register batch handed to get_registers / set_registers
MaxRegs == 2

\* MemoryRegion values that can be constructed in one behaviour
MaxRegions == 2

(***************************************************************************)
(* Results.  Ok(v), Err(e) and a panic; NoRet before any operation.        *)
(***************************************************************************)
Ok(v) == [kind |-> "Ok", val |-> v]

Err(e) == [kind |-> "Err", val |-> e]

Panic(what) == [kind |-> "Panic", val |-> what]

NoRet == [kind |-> "NoRet", val |-> "none"]

\* lib.rs:27  Error::Windows, the failure of a native call
Windows == [error |-> "Windows"]

\* lib.rs:35  Error::InvalidVpIndex(index, count)
InvalidVpIndex(index, count) == [error |-> "InvalidVpIndex", index |-> index, count |-> count]

\* lib.rs:33  Error::IncompatiblePropertyAvailibility(prop)
IncompatiblePropertyAvailibility(prop) == [error |-> "IncompatiblePropertyAvailibility", prop |-> prop]

(***************************************************************************)
(* processor.rs: RunExitReason and the decoding of an exit context.        *)
(***************************************************************************)
\* processor.rs:36-56  the variants of RunExitReason and their discriminants
RunExitReasonDiscriminant ==
  [ None |-> 0, MemoryAccess |-> 1, X64IoPortAccess |-> 2,
    UnrecoverableException |-> 4, InvalidVpRegisterValue |-> 5,
    UnsupportedFeature |-> 6, X64InterruptWindow |-> 7, X64Halt |-> 8,
    X64ApicEoi |-> 9, SynicSintDeliverable |-> 10,
    X64MsrAccess |-> 4096, X64Cpuid |-> 4097, Exception |-> 4098,
    X64Rdtsc |-> 4099, X64ApicSmiTrap |-> 4100, Hypercall |-> 4101,
    X64ApicInitSipiTrap |-> 4102, X64ApicWriteTrap |-> 4103,
    Canceled |-> 8193 ]

RunExitReason == DOMAIN RunExitReasonDiscriminant

\* the numbers WHvRunVirtualProcessor may leave in ExitReason: every
\* recognised one, and numbers in the gaps and past the ends of the table
\* (0x3, 0xB, 0xFFF, 0x1008, 0x2000, 0x2002)
ExitReasonNumbers ==
  {RunExitReasonDiscriminant[r] : r \in RunExitReason} \cup {3, 11, 4095, 4104, 8192, 8194}

\* processor.rs:81  the arm `_ => unreachable!()`
Unreachable == "unreachable!()"

\* a default arm that maps every unrecognised number to RunExitReason::None
RunExitReason_from_defaulting(value) ==
  IF \E r \in RunExitReason : RunExitReasonDiscriminant[r] = value
    THEN CHOOSE r \in RunExitReason : RunExitReasonDiscriminant[r] = value
    ELSE "None"

\* processor.rs:58-84  impl From<WHV_RUN_VP_EXIT_REASON> for RunExitReason
RunExitReason_from(value) ==
  CASE value = 0 -> "None"
    [] value = 1 -> "MemoryAccess"
    [] value = 2 -> "X64IoPortAccess"
    [] value = 4 -> "UnrecoverableException"
    [] value = 5 -> "InvalidVpRegisterValue"
    [] value = 6 -> "UnsupportedFeature"
    [] value = 7 -> "X64InterruptWindow"
    [] value = 8 -> "X64Halt"
    [] value = 9 -> "X64ApicEoi"
    [] value = 10 -> "SynicSintDeliverable"
    [] value = 4096 -> "X64MsrAccess"
    [] value = 4097 -> "X64Cpuid"
    [] value = 4098 -> "Exception"
    [] value = 4099 -> "X64Rdtsc"
    [] value = 4100 -> "X64ApicSmiTrap"
    [] value = 4101 -> "Hypercall"
    [] value = 4102 -> "X64ApicInitSipiTrap"
    [] value = 4103 -> "X64ApicWriteTrap"
    [] value = 8193 -> "Canceled"
    [] OTHER -> Unreachable

\* Option<RunExitContextExt>: None, or Some(variant(payload)) where the
\* payload is what the named member of WHV_RUN_VP_EXIT_CONTEXT_0 holds
NoExt == [some |-> FALSE, variant |-> "-", member |-> "-", payload |-> 0]

\* the members whose conversion matches on a native discriminant, with the
\* numbers the match lists; every other number reaches `_ => unreachable!()`:
\* processor.rs:411-420 UnsupportedFeatureCode (FeatureCode), 561-571
\* PendingInterruptionType (DeliverableType), 442-450 VpCancelReason
\* (CancelReason), 610-622 ApicWriteType (Type)
PayloadDiscriminants ==
  [ UnsupportedFeature |-> {1, 2},
    InterruptWindow |-> {0, 2, 3},
    CancelReason |-> {0},
    ApicWrite |-> {208, 224, 240, 848, 864} ]

\* the conversion of a payload panicked
PanicExt == [some |-> FALSE, variant |-> Unreachable, member |-> "-", payload |-> 0]

\* Some(Self::variant(context_ext.member.into())); context_ext stands for
\* the bytes of the union, and for the discriminant word of the member read
SomeExt(variant, member, context_ext) ==
  IF member \in DOMAIN PayloadDiscriminants /\ context_ext \notin PayloadDiscriminants[member]
    THEN PanicExt
    ELSE [some |-> TRUE, variant |-> variant, member |-> member, payload |-> context_ext]

\* processor.rs:640-658  the variants of RunExitContextExt
RunExitContextExt ==
  { "MemoryAccess", "IoPortAccess", "MsrAccess", "CpuidAccess", "VpException",
    "InterruptWindow", "UnsupportedFeature", "CancelReason", "ApicEoi", "ReadTsc",
    "ApicSmi", "Hypercall", "ApicInitSipi", "ApicWrite", "SynicSintDeliverable" }

\* from_union with the X64Halt arm decoding a payload (the InterruptWindow
\* member) instead of yielding None
RunExitContextExt_from_union_halt_payload(exit_reason, context_ext) ==
  CASE exit_reason \in {"None", "UnrecoverableException", "InvalidVpRegisterValue"} -> NoExt
    [] exit_reason = "X64Halt" -> SomeExt("InterruptWindow", "InterruptWindow", context_ext)
    [] exit_reason = "MemoryAccess" -> SomeExt("MemoryAccess", "MemoryAccess", context_ext)
    [] exit_reason = "X64IoPortAccess" -> SomeExt("IoPortAccess", "IoPortAccess", context_ext)
    [] exit_reason = "UnsupportedFeature" ->
         SomeExt("UnsupportedFeature", "UnsupportedFeature", context_ext)
    [] exit_reason = "X64InterruptWindow" ->
         SomeExt("InterruptWindow", "InterruptWindow", context_ext)
    [] exit_reason = "X64ApicEoi" -> SomeExt("ApicEoi", "ApicEoi", context_ext)
    [] exit_reason = "SynicSintDeliverable" ->
         SomeExt("SynicSintDeliverable", "SynicSintDeliverable", context_ext)
    [] exit_reason = "X64MsrAccess" -> SomeExt("MsrAccess", "MsrAccess", context_ext)
    [] exit_reason = "X64Cpuid" -> SomeExt("CpuidAccess", "CpuidAccess", context_ext)
    [] exit_reason = "Exception" -> SomeExt("VpException", "VpException", context_ext)
    [] exit_reason = "X64Rdtsc" -> SomeExt("ReadTsc", "ReadTsc", context_ext)
    [] exit_reason = "X64ApicSmiTrap" -> SomeExt("ApicSmi", "ApicSmi", context_ext)
    [] exit_reason = "Hypercall" -> SomeExt("Hypercall", "Hypercall", context_ext)
    [] exit_reason = "X64ApicInitSipiTrap" -> SomeExt("ApicInitSipi", "ApicInitSipi", context_ext)
    [] exit_reason = "X64ApicWriteTrap" -> SomeExt("ApicWrite", "ApicWrite", context_ext)
    [] exit_reason = "Canceled" -> SomeExt("CancelReason", "CancelReason", context_ext)

\* from_union with the MemoryAccess arm looking at the payload: a payload
\* that reads as 1 is decoded as an I/O port access
RunExitContextExt_from_union_by_payload(exit_reason, context_ext) ==
  IF exit_reason = "MemoryAccess" /\ context_ext = 1
    THEN SomeExt("IoPortAccess", "IoPortAccess", context_ext)
    ELSE RunExitContextExt_from_union_halt_payload(
           IF exit_reason = "X64Halt" THEN "None" ELSE exit_reason, context_ext)

\* processor.rs:660-706  RunExitContextExt::from_union
RunExitContextExt_from_union(exit_reason, context_ext) ==
  CASE exit_reason = "None" -> NoExt
    [] exit_reason = "MemoryAccess" -> SomeExt("MemoryAccess", "MemoryAccess", context_ext)
    [] exit_reason = "X64IoPortAccess" -> SomeExt("IoPortAccess", "IoPortAccess", context_ext)
    [] exit_reason = "UnrecoverableException" -> NoExt
    [] exit_reason = "InvalidVpRegisterValue" -> NoExt
    [] exit_reason = "UnsupportedFeature" ->
         SomeExt("UnsupportedFeature", "UnsupportedFeature", context_ext)
    [] exit_reason = "X64InterruptWindow" ->
         SomeExt("InterruptWindow", "InterruptWindow", context_ext)
    [] exit_reason = "X64Halt" -> NoExt
    [] exit_reason = "X64ApicEoi" -> SomeExt("ApicEoi", "ApicEoi", context_ext)
    [] exit_reason = "SynicSintDeliverable" ->
         SomeExt("SynicSintDeliverable", "SynicSintDeliverable", context_ext)
    [] exit_reason = "X64MsrAccess" -> SomeExt("MsrAccess", "MsrAccess", context_ext)
    [] exit_reason = "X64Cpuid" -> SomeExt("CpuidAccess", "CpuidAccess", context_ext)
    [] exit_reason = "Exception" -> SomeExt("VpException", "VpException", context_ext)
    [] exit_reason = "X64Rdtsc" -> SomeExt("ReadTsc", "ReadTsc", context_ext)
    [] exit_reason = "X64ApicSmiTrap" -> SomeExt("ApicSmi", "ApicSmi", context_ext)
    [] exit_reason = "Hypercall" -> SomeExt("Hypercall", "Hypercall", context_ext)
    [] exit_reason = "X64ApicInitSipiTrap" -> SomeExt("ApicInitSipi", "ApicInitSipi", context_ext)
    [] exit_reason = "X64ApicWriteTrap" -> SomeExt("ApicWrite", "ApicWrite", context_ext)
    [] exit_reason = "Canceled" -> SomeExt("CancelReason", "CancelReason", context_ext)

\* processor.rs:247-257  ExitContext::from(WHV_VP_EXIT_CONTEXT): a copy of the fields
ExitContext_from(VpContext) == VpContext

\* processor.rs:268-277  impl From<WHV_RUN_VP_EXIT_CONTEXT> for RunExitContext.
\* value = [ExitReason, VpContext, Anonymous]; the result is the RunExitContext,
\* or a panic when RunExitReason::from or the conversion of the payload
\* reaches unreachable!().
RunExitContext_from(value) ==
  LET exit_reason == RunExitReason_from(value.ExitReason)
  IN  IF exit_reason = Unreachable
        THEN Panic(Unreachable)
        ELSE LET ext == RunExitContextExt_from_union(exit_reason, value.Anonymous)
             IN  IF ext = PanicExt
                   THEN Panic(Unreachable)
                   ELSE Ok([ exit_reason |-> exit_reason,
                             context |-> ExitContext_from(value.VpContext),
                             ext |-> ext ])

(***************************************************************************)
(* processor.rs: the Register enum, grouped as the arms of Register::ty.   *)
(***************************************************************************)
(* processor.rs:1046-1063: the registers of the match arm yielding RegisterType::Reg64 *)
GeneralPurposeRegisters ==
  {
    "Rax", "Rcx", "Rdx", "Rbx", "Rsp", "Rbp", "Rsi", "Rdi", "R8", "R9", "R10", "R11", "R12",
    "R13", "R14", "R15", "Rip", "Rflags"
  }

(* processor.rs:1064-1071: the registers of the match arm yielding RegisterType::Segment *)
SegmentRegisters ==
  {
    "Es", "Cs", "Ss", "Ds", "Fs", "Gs", "Ldtr", "Tr"
  }

(* processor.rs:1072-1072: the registers of the match arm yielding RegisterType::Table *)
TableRegisters ==
  {
    "Idtr", "Gdtr"
  }

(* processor.rs:1073-1073: the registers of the match arm yielding RegisterType::Reg64 *)
ControlRegisters ==
  {
    "Cr0", "Cr2", "Cr3", "Cr4", "Cr8"
  }

(* processor.rs:1076-1081: the registers of the match arm yielding RegisterType::Reg64 *)
DebugRegisters ==
  {
    "Dr0", "Dr1", "Dr2", "Dr3", "Dr6", "Dr7"
  }

(* processor.rs:1082-1086: the registers of the match arm yielding RegisterType::Reg64 *)
ExtendedControlRegisters ==
  {
    "XCr0", "VirtualCr0", "VirtualCr3", "VirtualCr4", "VirtualCr8"
  }

(* processor.rs:1087-1102: the registers of the match arm yielding RegisterType::Reg128 *)
XmmRegisters ==
  {
    "Xmm0", "Xmm1", "Xmm2", "Xmm3", "Xmm4", "Xmm5", "Xmm6", "Xmm7", "Xmm8", "Xmm9", "Xmm10",
    "Xmm11", "Xmm12", "Xmm13", "Xmm14", "Xmm15"
  }

(* processor.rs:1103-1110: the registers of the match arm yielding RegisterType::Fp *)
FpMmxRegisters ==
  {
    "FpMmx0", "FpMmx1", "FpMmx2", "FpMmx3", "FpMmx4", "FpMmx5", "FpMmx6", "FpMmx7"
  }

(* processor.rs:1111-1111: the registers of the match arm yielding RegisterType::FpControlStatus *)
FpControlStatusRegisters ==
  {
    "FpControlStatus"
  }

(* processor.rs:1112-1112: the registers of the match arm yielding RegisterType::XmmControlStatus *)
XmmControlStatusRegisters ==
  {
    "XmmControlStatus"
  }

(* processor.rs:1113-1192: the registers of the match arm yielding RegisterType::Reg64 *)
MsrRegisters ==
  {
    "Tsc", "Efer", "KernelGsBase", "ApicBase", "Pat", "SysenterCs", "SysenterEip",
    "SysenterEsp", "Star", "Lstar", "Cstar", "Sfmask", "InitialApicId", "MsrMtrrCap",
    "MsrMtrrDefType", "MsrMtrrPhysBase0", "MsrMtrrPhysBase1", "MsrMtrrPhysBase2",
    "MsrMtrrPhysBase3", "MsrMtrrPhysBase4", "MsrMtrrPhysBase5", "MsrMtrrPhysBase6",
    "MsrMtrrPhysBase7", "MsrMtrrPhysBase8", "MsrMtrrPhysBase9", "MsrMtrrPhysBaseA",
    "MsrMtrrPhysBaseB", "MsrMtrrPhysBaseC", "MsrMtrrPhysBaseD", "MsrMtrrPhysBaseE",
    "MsrMtrrPhysBaseF", "MsrMtrrPhysMask0", "MsrMtrrPhysMask1", "MsrMtrrPhysMask2",
    "MsrMtrrPhysMask3", "MsrMtrrPhysMask4", "MsrMtrrPhysMask5", "MsrMtrrPhysMask6",
    "MsrMtrrPhysMask7", "MsrMtrrPhysMask8", "MsrMtrrPhysMask9", "MsrMtrrPhysMaskA",
    "MsrMtrrPhysMaskB", "MsrMtrrPhysMaskC", "MsrMtrrPhysMaskD", "MsrMtrrPhysMaskE",
    "MsrMtrrPhysMaskF", "MsrMtrrFix64k00000", "MsrMtrrFix16k80000", "MsrMtrrFix16kA0000",
    "MsrMtrrFix4kC0000", "MsrMtrrFix4kC8000", "MsrMtrrFix4kD0000", "MsrMtrrFix4kD8000",
    "MsrMtrrFix4kE0000", "MsrMtrrFix4kE8000", "MsrMtrrFix4kF0000", "MsrMtrrFix4kF8000",
    "TscAux", "Bndcfgs", "MCount", "ACount", "SpecCtrl", "PredCmd", "TscVirtualOffset",
    "TsxCtrl", "Xss", "UCet", "SCet", "Ssp", "Pl0Ssp", "Pl1Ssp", "Pl2Ssp", "Pl3Ssp",
    "InterruptSspTableAddr", "TscDeadline", "TscAdjust", "UmwaitControl", "Xfd", "XfdErr"
  }

(* processor.rs:1193-1235: the registers of the match arm yielding RegisterType::Reg64 *)
ApicRegisters ==
  {
    "ApicId", "ApicVersion", "ApicTpr", "ApicPpr", "ApicEoi", "ApicLdr", "ApicSpurious",
    "ApicIsr0", "ApicIsr1", "ApicIsr2", "ApicIsr3", "ApicIsr4", "ApicIsr5", "ApicIsr6",
    "ApicIsr7", "ApicTmr0", "ApicTmr1", "ApicTmr2", "ApicTmr3", "ApicTmr4", "ApicTmr5",
    "ApicTmr6", "ApicTmr7", "ApicIrr0", "ApicIrr1", "ApicIrr2", "ApicIrr3", "ApicIrr4",
    "ApicIrr5", "ApicIrr6", "ApicIrr7", "ApicEse", "ApicIcr", "ApicLvtTimer",
    "ApicLvtThermal", "ApicLvtPerfmon", "ApicLvtLint0", "ApicLvtLint1", "ApicLvtError",
    "ApicInitCount", "ApicCurrentCount", "ApicDivide", "ApicSelfIpi"
  }

(* processor.rs:1236-1268: the registers of the match arm yielding todo!() *)
UnclassifiedRegisters ==
  {
    "Sint0", "Sint1", "Sint2", "Sint3", "Sint4", "Sint5", "Sint6", "Sint7", "Sint8",
    "Sint9", "Sint10", "Sint11", "Sint12", "Sint13", "Sint14", "Sint15", "Scontrol",
    "Sversion", "Siefp", "Simp", "Eom", "VpRuntime", "Hypercall", "GuestOsId",
    "VpAssistPage", "ReferenceTsc", "ReferenceTscSequence", "PendingInterruption",
    "InterruptState", "PendingEvent", "DeliverabilityNotifications",
    "InternalActivityState", "PendingDebugException"
  }

\* processor.rs:803-1040  the closed Register enum
Register ==
  GeneralPurposeRegisters \cup SegmentRegisters \cup TableRegisters \cup ControlRegisters
    \cup DebugRegisters \cup ExtendedControlRegisters \cup XmmRegisters \cup FpMmxRegisters
    \cup FpControlStatusRegisters \cup XmmControlStatusRegisters \cup MsrRegisters
    \cup ApicRegisters \cup UnclassifiedRegisters

\* processor.rs:1280-1296  RegisterType (RegisterVal has one variant per type,
\* of the same name: processor.rs:1299-1315)
RegisterType ==
  { "Reg128", "Reg64", "Reg32", "Reg16", "Reg8", "Fp", "FpControlStatus",
    "XmmControlStatus", "Segment", "Table", "InterruptState", "PendingInterruption",
    "DeliverabilityNotifications", "ExceptionEvent", "ExtIntEvent" }

\* processor.rs:1268  the arm `=> todo!()`
Todo == "todo!()"

\* processor.rs:1042-1271  Register::ty
ty(self) ==
  CASE self \in GeneralPurposeRegisters -> "Reg64"
    [] self \in SegmentRegisters -> "Segment"
    [] self \in TableRegisters -> "Table"
    [] self \in ControlRegisters -> "Reg64"
    [] self \in DebugRegisters -> "Reg64"
    [] self \in ExtendedControlRegisters -> "Reg64"
    [] self \in XmmRegisters -> "Reg128"
    [] self \in FpMmxRegisters -> "Fp"
    [] self \in FpControlStatusRegisters -> "FpControlStatus"
    [] self \in XmmControlStatusRegisters -> "XmmControlStatus"
    [] self \in MsrRegisters -> "Reg64"
    [] self \in ApicRegisters -> "Reg64"
    [] self \in UnclassifiedRegisters -> Todo

(***************************************************************************)
(* Raw unions.  A native union (WHV_PARTITION_PROPERTY, WHV_REGISTER_VALUE)*)
(* is its bytes; every member starts at offset 0.  A typed value is the    *)
(* sequence of its fields, each field the little-endian bytes of an        *)
(* integer (a bool is the one byte 0 or 1, a fieldless enum the one byte   *)
(* of its discriminant).  A byte no write has initialised is Uninit; a     *)
(* read of it is undefined, so a value decoded from it equals no value a   *)
(* caller can build.                                                       *)
(***************************************************************************)
Uninit == 0 - 1

Zeroes(n) == [i \in 1..n |-> 0]

Uninitialised(n) == [i \in 1..n |-> Uninit]

\* the bytes of raw with `bytes` stored at byte offset off
WriteAt(raw, off, bytes) ==
  [i \in 1..Len(raw) |-> IF i > off /\ i <= off + Len(bytes) THEN bytes[i - off] ELSE raw[i]]

\* the size bytes of raw from byte offset off
ReadAt(raw, off, size) == [i \in 1..size |-> raw[off + i]]

\* the little-endian bytes of n < 2^16 as an integer of `size` bytes
LE(n, size) == [i \in 1..size |-> IF i = 1 THEN n % 256 ELSE IF i = 2 THEN (n \div 256) % 256 ELSE 0]

\* the integer whose little-endian bytes are given, when it is below 2^16
FromLE(bytes) ==
  IF \A i \in 1..Len(bytes) : i > 2 => bytes[i] = 0
    THEN bytes[1] + (IF Len(bytes) > 1 THEN 256 * bytes[2] ELSE 0)
    ELSE 65536

(* The slots of a native struct: an integer field, a BOOL (i32), an enum   *)
(* carried as i32 with discriminants 0..2, a reserved field written as 0.  *)
IntField(off, size) == [off |-> off, size |-> size, kind |-> "int"]

BoolField(off) == [off |-> off, size |-> 4, kind |-> "bool"]

EnumField(off) == [off |-> off, size |-> 4, kind |-> "enum"]

ReservedField(off, size) == [off |-> off, size |-> size, kind |-> "reserved"]

\* the slots that carry a field of the typed value
Carried(slots) == SelectSeq(slots, LAMBDA s : s.kind # "reserved")

\* typed field -> native bytes: `v` for integers, bool.into() (BOOL 0 or 1),
\* `value as i32` for an enum, 0 for a reserved field
EncodeSlot(slot, field) ==
  CASE slot.kind = "int" -> field
    [] slot.kind = "bool" -> LE(field[1], 4)
    [] slot.kind = "enum" -> LE(field[1], 4)

\* native bytes -> typed field: the bytes for integers, BOOL::as_bool
\* (self.0 != 0) for a BOOL, the matched discriminant for an enum
DecodeSlot(slot, bytes) ==
  CASE slot.kind = "int" -> bytes
    [] slot.kind = "bool" ->
         IF \E i \in 1..4 : bytes[i] = Uninit THEN <<Uninit>>
         ELSE IF \E i \in 1..4 : bytes[i] # 0 THEN <<1>> ELSE <<0>>
    [] slot.kind = "enum" -> <<bytes[1]>>

\* `match value.0 { 0 => .., 1 => .., 2 => .., _ => unreachable!() }`
EnumUnreachable(bytes) == ~(bytes[1] \in 0..2 /\ bytes[2] = 0 /\ bytes[3] = 0 /\ bytes[4] = 0)

RECURSIVE EncodeInto(_, _, _, _)
\* a struct literal: every slot of `slots` written into raw, the carried ones
\* from the fields of the typed value in order
EncodeInto(raw, slots, fields, k) ==
  IF slots = <<>> THEN raw
  ELSE LET s == Head(slots)
       IN  IF s.kind = "reserved"
             THEN EncodeInto(WriteAt(raw, s.off, Zeroes(s.size)), Tail(slots), fields, k)
             ELSE EncodeInto(WriteAt(raw, s.off, EncodeSlot(s, fields[k])),
                             Tail(slots), fields, k + 1)

\* the typed fields read from raw through the slots of a member
DecodeFrom(raw, slots) ==
  LET c == Carried(slots)
  IN  [k \in 1..Len(c) |-> DecodeSlot(c[k], ReadAt(raw, c[k].off, c[k].size))]

\* some enum slot holds a number outside its match
DecodePanics(raw, slots) ==
  \E k \in 1..Len(slots) :
    slots[k].kind = "enum" /\ EnumUnreachable(ReadAt(raw, slots[k].off, slots[k].size))

(***************************************************************************)
(* partition.rs: partition properties and their codec.                     *)
(***************************************************************************)
\* partition.rs:31-62  PartitionPropertyCode and its discriminants
PartitionPropertyCodeDiscriminant ==
  [ ExtendedVmExits |-> 1,
    ExceptionExitBitmap |-> 2,
    SeparateSecurityDomain |-> 3,
    NestedVirtualization |-> 4,
    X64MsrExitBitmap |-> 5,
    PrimaryNumaNode |-> 6,
    CpuReserve |-> 7,
    CpuCap |-> 8,
    CpuWeight |-> 9,
    CpuGroupId |-> 10,
    ProcessorFrequencyCap |-> 11,
    AllowDeviceAssignment |-> 12,
    DisableSmt |-> 13,
    ProcessorFeatures |-> 4097,
    ProcessorClFlushSize |-> 4098,
    CpuidExitList |-> 4099,
    CpuidResultList |-> 4100,
    LocalApicEmulationMode |-> 4101,
    ProcessorXsaveFeatures |-> 4102,
    ProcessorClockFrequency |-> 4103,
    InterruptClockFrequency |-> 4104,
    ApicRemoteRead |-> 4105,
    ProcessorFeaturesBanks |-> 4106,
    ReferenceTime |-> 4107,
    SyntheticProcessorFeaturesBanks |-> 4108,
    CpuidResultList2 |-> 4109,
    ProcessorPerfmonFeatures |-> 4110,
    MsrActionList |-> 4111,
    UnimplementedMsrAction |-> 4112,
    ProcessorCount |-> 8191 ]

PartitionPropertyCode == DOMAIN PartitionPropertyCodeDiscriminant

\* partition.rs:664  size_of::<WHV_PARTITION_PROPERTY>(), in bytes
PropertyUnionSize == 48

\* the members of WHV_PARTITION_PROPERTY, one per code, with the slots of
\* their native types; the carried slots are the fields of the payload
\* types of partition.rs:71-346 (u8/u16/u32/u64, bool, bitflags, the
\* enums MsrAction and X64LocalApicEmulationMode, the structs
\* X64CpuidResult, X64CpuidResult2, MsrActionEntry and the two *Banks)
WHV_PARTITION_PROPERTY ==
  [ ExtendedVmExits |-> <<IntField(0, 8)>>,
    ExceptionExitBitmap |-> <<IntField(0, 8)>>,
    SeparateSecurityDomain |-> <<BoolField(0)>>,
    NestedVirtualization |-> <<BoolField(0)>>,
    X64MsrExitBitmap |-> <<IntField(0, 8)>>,
    PrimaryNumaNode |-> <<IntField(0, 2)>>,
    CpuReserve |-> <<IntField(0, 4)>>,
    CpuCap |-> <<IntField(0, 4)>>,
    CpuWeight |-> <<IntField(0, 4)>>,
    CpuGroupId |-> <<IntField(0, 8)>>,
    ProcessorFrequencyCap |-> <<IntField(0, 4)>>,
    AllowDeviceAssignment |-> <<BoolField(0)>>,
    DisableSmt |-> <<BoolField(0)>>,
    ProcessorFeatures |-> <<IntField(0, 8)>>,
    ProcessorClFlushSize |-> <<IntField(0, 1)>>,
    CpuidExitList |-> <<IntField(0, 4)>>,
    CpuidResultList |-> <<IntField(0, 4), ReservedField(4, 12), IntField(16, 4), IntField(20, 4), IntField(24, 4), IntField(28, 4)>>,
    LocalApicEmulationMode |-> <<EnumField(0)>>,
    ProcessorXsaveFeatures |-> <<IntField(0, 8)>>,
    ProcessorClockFrequency |-> <<IntField(0, 8)>>,
    InterruptClockFrequency |-> <<IntField(0, 8)>>,
    ApicRemoteRead |-> <<BoolField(0)>>,
    ProcessorFeaturesBanks |-> <<IntField(0, 4), ReservedField(4, 4), IntField(8, 8), IntField(16, 8)>>,
    ReferenceTime |-> <<IntField(0, 8)>>,
    SyntheticProcessorFeaturesBanks |-> <<IntField(0, 4), ReservedField(4, 4), IntField(8, 8)>>,
    CpuidResultList2 |-> <<IntField(0, 4), IntField(4, 4), IntField(8, 4), IntField(12, 4), IntField(16, 4), IntField(20, 4), IntField(24, 4),
         IntField(28, 4), IntField(32, 4), IntField(36, 4), IntField(40, 4), IntField(44, 4)>>,
    ProcessorPerfmonFeatures |-> <<IntField(0, 8)>>,
    MsrActionList |-> <<IntField(0, 4), IntField(4, 1), IntField(5, 1), ReservedField(6, 2)>>,
    UnimplementedMsrAction |-> <<EnumField(0)>>,
    ProcessorCount |-> <<IntField(0, 4)>> ]

\* partition.rs:315-346  the variants of PartitionProperty
PartitionPropertyVariants == DOMAIN WHV_PARTITION_PROPERTY

\* one arm of from_union: Self::variant(raw_val.member.into())
FromMember(variant, member, raw_val) ==
  IF DecodePanics(raw_val, WHV_PARTITION_PROPERTY[member])
    THEN Panic(Unreachable)
    ELSE Ok([ variant |-> variant, member |-> member,
              v |-> DecodeFrom(raw_val, WHV_PARTITION_PROPERTY[member]) ])

\* from_union with the PrimaryNumaNode arm reading the one-byte member
\* ProcessorClFlushSize
PartitionProperty_from_union_narrow(code, raw_val) ==
  IF code = "PrimaryNumaNode"
    THEN FromMember("PrimaryNumaNode", "ProcessorClFlushSize", raw_val)
    ELSE FromMember(code, IF code = "ExceptionExitBitmap" THEN "ExtendedVmExits" ELSE code,
                    raw_val)

\* partition.rs:349-433  PartitionProperty::from_union
PartitionProperty_from_union(code, raw_val) ==
  CASE code = "ExtendedVmExits" ->
         FromMember("ExtendedVmExits", "ExtendedVmExits", raw_val)
    [] code = "ExceptionExitBitmap" ->
         FromMember("ExceptionExitBitmap", "ExtendedVmExits", raw_val)
    [] code = "SeparateSecurityDomain" ->
         FromMember("SeparateSecurityDomain", "SeparateSecurityDomain", raw_val)
    [] code = "NestedVirtualization" ->
         FromMember("NestedVirtualization", "NestedVirtualization", raw_val)
    [] code = "X64MsrExitBitmap" ->
         FromMember("X64MsrExitBitmap", "X64MsrExitBitmap", raw_val)
    [] code = "PrimaryNumaNode" ->
         FromMember("PrimaryNumaNode", "PrimaryNumaNode", raw_val)
    [] code = "CpuReserve" ->
         FromMember("CpuReserve", "CpuReserve", raw_val)
    [] code = "CpuCap" ->
         FromMember("CpuCap", "CpuCap", raw_val)
    [] code = "CpuWeight" ->
         FromMember("CpuWeight", "CpuWeight", raw_val)
    [] code = "CpuGroupId" ->
         FromMember("CpuGroupId", "CpuGroupId", raw_val)
    [] code = "ProcessorFrequencyCap" ->
         FromMember("ProcessorFrequencyCap", "ProcessorFrequencyCap", raw_val)
    [] code = "AllowDeviceAssignment" ->
         FromMember("AllowDeviceAssignment", "AllowDeviceAssignment", raw_val)
    [] code = "DisableSmt" ->
         FromMember("DisableSmt", "DisableSmt", raw_val)
    [] code = "ProcessorFeatures" ->
         FromMember("ProcessorFeatures", "ProcessorFeatures", raw_val)
    [] code = "ProcessorClFlushSize" ->
         FromMember("ProcessorClFlushSize", "ProcessorClFlushSize", raw_val)
    [] code = "CpuidExitList" ->
         FromMember("CpuidExitList", "CpuidExitList", raw_val)
    [] code = "CpuidResultList" ->
         FromMember("CpuidResultList", "CpuidResultList", raw_val)
    [] code = "LocalApicEmulationMode" ->
         FromMember("LocalApicEmulationMode", "LocalApicEmulationMode", raw_val)
    [] code = "ProcessorXsaveFeatures" ->
         FromMember("ProcessorXsaveFeatures", "ProcessorXsaveFeatures", raw_val)
    [] code = "ProcessorClockFrequency" ->
         FromMember("ProcessorClockFrequency", "ProcessorClockFrequency", raw_val)
    [] code = "InterruptClockFrequency" ->
         FromMember("InterruptClockFrequency", "InterruptClockFrequency", raw_val)
    [] code = "ApicRemoteRead" ->
         FromMember("ApicRemoteRead", "ApicRemoteRead", raw_val)
    [] code = "ProcessorFeaturesBanks" ->
         FromMember("ProcessorFeaturesBanks", "ProcessorFeaturesBanks", raw_val)
    [] code = "ReferenceTime" ->
         FromMember("ReferenceTime", "ReferenceTime", raw_val)
    [] code = "SyntheticProcessorFeaturesBanks" ->
         FromMember("SyntheticProcessorFeaturesBanks", "SyntheticProcessorFeaturesBanks", raw_val)
    [] code = "CpuidResultList2" ->
         FromMember("CpuidResultList2", "CpuidResultList2", raw_val)
    [] code = "ProcessorPerfmonFeatures" ->
         FromMember("ProcessorPerfmonFeatures", "ProcessorPerfmonFeatures", raw_val)
    [] code = "MsrActionList" ->
         FromMember("MsrActionList", "MsrActionList", raw_val)
    [] code = "UnimplementedMsrAction" ->
         FromMember("UnimplementedMsrAction", "UnimplementedMsrAction", raw_val)
    [] code = "ProcessorCount" ->
         FromMember("ProcessorCount", "ProcessorCount", raw_val)

\* partition.rs:436-469  PartitionProperty::availibility: every arm is todo!()
availibility(self) ==
  CASE self.variant = "ExtendedVmExits" -> Todo
    [] self.variant = "ProcessorFeatures" -> Todo
    [] self.variant = "SyntheticProcessorFeaturesBanks" -> Todo
    [] self.variant = "ProcessorXsaveFeatures" -> Todo
    [] self.variant = "ProcessorClFlushSize" -> Todo
    [] self.variant = "ProcessorCount" -> Todo
    [] self.variant = "CpuidExitList" -> Todo
    [] self.variant = "CpuidResultList" -> Todo
    [] self.variant = "CpuidResultList2" -> Todo
    [] self.variant = "MsrActionList" -> Todo
    [] self.variant = "UnimplementedMsrAction" -> Todo
    [] self.variant = "ExceptionExitBitmap" -> Todo
    [] self.variant = "LocalApicEmulationMode" -> Todo
    [] self.variant = "SeparateSecurityDomain" -> Todo
    [] self.variant = "NestedVirtualization" -> Todo
    [] self.variant = "X64MsrExitBitmap" -> Todo
    [] self.variant = "ProcessorClockFrequency" -> Todo
    [] self.variant = "InterruptClockFrequency" -> Todo
    [] self.variant = "ApicRemoteRead" -> Todo
    [] self.variant = "ProcessorFeaturesBanks" -> Todo
    [] self.variant = "ReferenceTime" -> Todo
    [] self.variant = "PrimaryNumaNode" -> Todo
    [] self.variant = "CpuReserve" -> Todo
    [] self.variant = "CpuCap" -> Todo
    [] self.variant = "CpuWeight" -> Todo
    [] self.variant = "CpuGroupId" -> Todo
    [] self.variant = "ProcessorFrequencyCap" -> Todo
    [] self.variant = "AllowDeviceAssignment" -> Todo
    [] self.variant = "ProcessorPerfmonFeatures" -> Todo
    [] self.variant = "DisableSmt" -> Todo

\* code with the CpuCap arm reporting PartitionPropertyCode::CpuReserve
code_aliasing(self) ==
  IF self.variant = "CpuCap" THEN "CpuReserve" ELSE self.variant

\* partition.rs:471-530  PartitionProperty::code
code(self) ==
  CASE self.variant = "ExtendedVmExits" -> "ExtendedVmExits"
    [] self.variant = "ProcessorFeatures" -> "ProcessorFeatures"
    [] self.variant = "SyntheticProcessorFeaturesBanks" -> "SyntheticProcessorFeaturesBanks"
    [] self.variant = "ProcessorXsaveFeatures" -> "ProcessorXsaveFeatures"
    [] self.variant = "ProcessorClFlushSize" -> "ProcessorClFlushSize"
    [] self.variant = "ProcessorCount" -> "ProcessorCount"
    [] self.variant = "CpuidExitList" -> "CpuidExitList"
    [] self.variant = "CpuidResultList" -> "CpuidResultList"
    [] self.variant = "CpuidResultList2" -> "CpuidResultList2"
    [] self.variant = "MsrActionList" -> "MsrActionList"
    [] self.variant = "UnimplementedMsrAction" -> "UnimplementedMsrAction"
    [] self.variant = "ExceptionExitBitmap" -> "ExceptionExitBitmap"
    [] self.variant = "LocalApicEmulationMode" -> "LocalApicEmulationMode"
    [] self.variant = "SeparateSecurityDomain" -> "SeparateSecurityDomain"
    [] self.variant = "NestedVirtualization" -> "NestedVirtualization"
    [] self.variant = "X64MsrExitBitmap" -> "X64MsrExitBitmap"
    [] self.variant = "ProcessorClockFrequency" -> "ProcessorClockFrequency"
    [] self.variant = "InterruptClockFrequency" -> "InterruptClockFrequency"
    [] self.variant = "ApicRemoteRead" -> "ApicRemoteRead"
    [] self.variant = "ProcessorFeaturesBanks" -> "ProcessorFeaturesBanks"
    [] self.variant = "ReferenceTime" -> "ReferenceTime"
    [] self.variant = "PrimaryNumaNode" -> "PrimaryNumaNode"
    [] self.variant = "CpuReserve" -> "CpuReserve"
    [] self.variant = "CpuCap" -> "CpuCap"
    [] self.variant = "CpuWeight" -> "CpuWeight"
    [] self.variant = "CpuGroupId" -> "CpuGroupId"
    [] self.variant = "ProcessorFrequencyCap" -> "ProcessorFrequencyCap"
    [] self.variant = "AllowDeviceAssignment" -> "AllowDeviceAssignment"
    [] self.variant = "ProcessorPerfmonFeatures" -> "ProcessorPerfmonFeatures"
    [] self.variant = "DisableSmt" -> "DisableSmt"

\* one arm of the conversion: Self { member: v.into() }
ToMember(member, v) ==
  EncodeInto(Uninitialised(PropertyUnionSize), WHV_PARTITION_PROPERTY[member], v, 1)

\* partition.rs:533-613  impl From<PartitionProperty> for WHV_PARTITION_PROPERTY
WHV_PARTITION_PROPERTY_from(value) ==
  CASE value.variant = "ExtendedVmExits" -> ToMember("ExtendedVmExits", value.v)
    [] value.variant = "ProcessorFeatures" -> ToMember("ProcessorFeatures", value.v)
    [] value.variant = "SyntheticProcessorFeaturesBanks" -> ToMember("SyntheticProcessorFeaturesBanks", value.v)
    [] value.variant = "ProcessorXsaveFeatures" -> ToMember("ProcessorXsaveFeatures", value.v)
    [] value.variant = "ProcessorClFlushSize" -> ToMember("ProcessorClFlushSize", value.v)
    [] value.variant = "ProcessorCount" -> ToMember("ProcessorCount", value.v)
    [] value.variant = "CpuidExitList" -> ToMember("CpuidExitList", value.v)
    [] value.variant = "CpuidResultList" -> ToMember("CpuidResultList", value.v)
    [] value.variant = "CpuidResultList2" -> ToMember("CpuidResultList2", value.v)
    [] value.variant = "MsrActionList" -> ToMember("MsrActionList", value.v)
    [] value.variant = "UnimplementedMsrAction" -> ToMember("UnimplementedMsrAction", value.v)
    [] value.variant = "ExceptionExitBitmap" -> ToMember("ExceptionExitBitmap", value.v)
    [] value.variant = "LocalApicEmulationMode" -> ToMember("LocalApicEmulationMode", value.v)
    [] value.variant = "SeparateSecurityDomain" -> ToMember("SeparateSecurityDomain", value.v)
    [] value.variant = "NestedVirtualization" -> ToMember("NestedVirtualization", value.v)
    [] value.variant = "X64MsrExitBitmap" -> ToMember("X64MsrExitBitmap", value.v)
    [] value.variant = "ProcessorClockFrequency" -> ToMember("ProcessorClockFrequency", value.v)
    [] value.variant = "InterruptClockFrequency" -> ToMember("InterruptClockFrequency", value.v)
    [] value.variant = "ApicRemoteRead" -> ToMember("ApicRemoteRead", value.v)
    [] value.variant = "ProcessorFeaturesBanks" -> ToMember("ProcessorFeaturesBanks", value.v)
    [] value.variant = "ReferenceTime" -> ToMember("ReferenceTime", value.v)
    [] value.variant = "PrimaryNumaNode" -> ToMember("PrimaryNumaNode", value.v)
    [] value.variant = "CpuReserve" -> ToMember("CpuReserve", value.v)
    [] value.variant = "CpuCap" -> ToMember("CpuCap", value.v)
    [] value.variant = "CpuWeight" -> ToMember("CpuWeight", value.v)
    [] value.variant = "CpuGroupId" -> ToMember("CpuGroupId", value.v)
    [] value.variant = "ProcessorFrequencyCap" -> ToMember("ProcessorFrequencyCap", value.v)
    [] value.variant = "AllowDeviceAssignment" -> ToMember("AllowDeviceAssignment", value.v)
    [] value.variant = "ProcessorPerfmonFeatures" -> ToMember("ProcessorPerfmonFeatures", value.v)
    [] value.variant = "DisableSmt" -> ToMember("DisableSmt", value.v)

\* a typed PartitionProperty
Property(variant, v) == [variant |-> variant, v |-> v]

\* PartitionProperty::ProcessorCount(count)
ProcessorCount(count) == Property("ProcessorCount", <<LE(count, 4)>>)

\* two PartitionProperty values are field-for-field equal
SameProperty(p, q) == p.variant = q.variant /\ p.v = q.v

\* payloads of a field: all bits clear, all bits set, bytes that differ from
\* field to field and byte to byte; FALSE/TRUE for a bool; the three variants
\* of an enum
SampleField(slot, k, pattern) ==
  CASE slot.kind = "int" ->
         [i \in 1..slot.size |->
            IF pattern = 0 THEN 0 ELSE IF pattern = 1 THEN 255 ELSE 16 * k + i]
    [] slot.kind = "bool" -> <<pattern % 2>>
    [] slot.kind = "enum" -> <<pattern>>

Patterns == 0..2

\* the PartitionProperty values of one variant the codec is exercised on
PropertySamples(variant) ==
  LET c == Carried(WHV_PARTITION_PROPERTY[variant])
  IN  { Property(variant, [k \in 1..Len(c) |-> SampleField(c[k], k, pattern)]) :
          pattern \in Patterns }

(***************************************************************************)
(* processor.rs: register values and their codec.                          *)
(***************************************************************************)
\* size_of::<WHV_REGISTER_VALUE>(), in bytes: its widest member is the u128
\* of RegisterVal::Reg128 (processor.rs:1300)
RegisterValueSize == 16

\* the members of WHV_REGISTER_VALUE, one per RegisterType, with the slots of
\* their native types; the carried slots are the fields of the payload of
\* the RegisterVal variant (processor.rs:87-220, 1299-1315; fields.rs)
WHV_REGISTER_VALUE ==
  [ Reg128 |-> <<IntField(0, 16)>>,
    Reg64 |-> <<IntField(0, 8)>>,
    Reg32 |-> <<IntField(0, 4)>>,
    Reg16 |-> <<IntField(0, 2)>>,
    Reg8 |-> <<IntField(0, 1)>>,
    Fp |-> <<IntField(0, 8), IntField(8, 8)>>,
    FpControlStatus |-> <<IntField(0, 2), IntField(2, 2), IntField(4, 1), ReservedField(5, 1), IntField(6, 2), IntField(8, 8)>>,
    XmmControlStatus |-> <<IntField(0, 8), IntField(8, 4), IntField(12, 4)>>,
    Segment |-> <<IntField(0, 8), IntField(8, 4), IntField(12, 2), IntField(14, 2)>>,
    Table |-> <<IntField(0, 6), IntField(6, 2), IntField(8, 8)>>,
    InterruptState |-> <<IntField(0, 8)>>,
    PendingInterruption |-> <<IntField(0, 8)>>,
    DeliverabilityNotifications |-> <<IntField(0, 8)>>,
    ExceptionEvent |-> <<IntField(0, 4), IntField(4, 4), IntField(8, 8)>>,
    ExtIntEvent |-> <<IntField(0, 8), ReservedField(8, 8)>> ]

\* one arm of RegisterVal::from_union: Self::variant(raw_val.member.into())
FromRegisterMember(variant, member, raw_val) ==
  [ variant |-> variant, member |-> member,
    v |-> DecodeFrom(raw_val, WHV_REGISTER_VALUE[member]) ]

\* a decoder that reads every type through the Reg64 member
RegisterVal_from_union_as_reg64(ty_, raw_val) == FromRegisterMember("Reg64", "Reg64", raw_val)

\* processor.rs:1317-1349  RegisterVal::from_union
RegisterVal_from_union(ty_, raw_val) ==
  CASE ty_ = "Reg128" -> FromRegisterMember("Reg128", "Reg128", raw_val)
    [] ty_ = "Reg64" -> FromRegisterMember("Reg64", "Reg64", raw_val)
    [] ty_ = "Reg32" -> FromRegisterMember("Reg32", "Reg32", raw_val)
    [] ty_ = "Reg16" -> FromRegisterMember("Reg16", "Reg16", raw_val)
    [] ty_ = "Reg8" -> FromRegisterMember("Reg8", "Reg8", raw_val)
    [] ty_ = "Fp" -> FromRegisterMember("Fp", "Fp", raw_val)
    [] ty_ = "FpControlStatus" -> FromRegisterMember("FpControlStatus", "FpControlStatus", raw_val)
    [] ty_ = "XmmControlStatus" -> FromRegisterMember("XmmControlStatus", "XmmControlStatus", raw_val)
    [] ty_ = "Segment" -> FromRegisterMember("Segment", "Segment", raw_val)
    [] ty_ = "Table" -> FromRegisterMember("Table", "Table", raw_val)
    [] ty_ = "InterruptState" -> FromRegisterMember("InterruptState", "InterruptState", raw_val)
    [] ty_ = "PendingInterruption" -> FromRegisterMember("PendingInterruption", "PendingInterruption", raw_val)
    [] ty_ = "DeliverabilityNotifications" -> FromRegisterMember("DeliverabilityNotifications", "DeliverabilityNotifications", raw_val)
    [] ty_ = "ExceptionEvent" -> FromRegisterMember("ExceptionEvent", "ExceptionEvent", raw_val)
    [] ty_ = "ExtIntEvent" -> FromRegisterMember("ExtIntEvent", "ExtIntEvent", raw_val)

\* one arm of the conversion: WHV_REGISTER_VALUE { member: v.into() }
ToRegisterMember(member, v) ==
  EncodeInto(Uninitialised(RegisterValueSize), WHV_REGISTER_VALUE[member], v, 1)

\* processor.rs:1351-1388  impl From<RegisterVal> for WHV_REGISTER_VALUE
WHV_REGISTER_VALUE_from(value) ==
  CASE value.variant = "Reg128" -> ToRegisterMember("Reg128", value.v)
    [] value.variant = "Reg64" -> ToRegisterMember("Reg64", value.v)
    [] value.variant = "Reg32" -> ToRegisterMember("Reg32", value.v)
    [] value.variant = "Reg16" -> ToRegisterMember("Reg16", value.v)
    [] value.variant = "Reg8" -> ToRegisterMember("Reg8", value.v)
    [] value.variant = "Fp" -> ToRegisterMember("Fp", value.v)
    [] value.variant = "FpControlStatus" -> ToRegisterMember("FpControlStatus", value.v)
    [] value.variant = "XmmControlStatus" -> ToRegisterMember("XmmControlStatus", value.v)
    [] value.variant = "Segment" -> ToRegisterMember("Segment", value.v)
    [] value.variant = "Table" -> ToRegisterMember("Table", value.v)
    [] value.variant = "InterruptState" -> ToRegisterMember("InterruptState", value.v)
    [] value.variant = "PendingInterruption" -> ToRegisterMember("PendingInterruption", value.v)
    [] value.variant = "DeliverabilityNotifications" -> ToRegisterMember("DeliverabilityNotifications", value.v)
    [] value.variant = "ExceptionEvent" -> ToRegisterMember("ExceptionEvent", value.v)
    [] value.variant = "ExtIntEvent" -> ToRegisterMember("ExtIntEvent", value.v)

\* a typed RegisterVal
RegisterVal(variant, v) == [variant |-> variant, v |-> v]

\* the RegisterVal of one variant with the payload pattern given
RegisterValSample(variant, pattern) ==
  LET c == Carried(WHV_REGISTER_VALUE[variant])
  IN  RegisterVal(variant, [k \in 1..Len(c) |-> SampleField(c[k], k, pattern)])

\* what the hypervisor may leave in one WHV_REGISTER_VALUE of the output array
RawRegisterValue(pattern) ==
  [i \in 1..RegisterValueSize |-> IF pattern = 0 THEN 0 ELSE IF pattern = 1 THEN 255 ELSE i]

\* processor.rs:1273-1277  WHV_REGISTER_NAME::from(register): the discriminant,
\* which names the register
WHV_REGISTER_NAME_from(value) == value

(***************************************************************************)
(* partition.rs: the partition lifecycle.                                  *)
(***************************************************************************)
VpIds == 1..MaxVps

Counts == 0..MaxCount

Indices == 0..(MaxCount + 1)

\* a native call issued by an operation, with its outcome
Call(fn, arg, ok) == [fn |-> fn, arg |-> arg, ok |-> ok]

Operation(name, arg) == [name |-> name, arg |-> arg]

NoPartition == [st |-> "none", memory_regions |-> <<>>]

NoVp == [st |-> "none", index |-> 0]

\* MemoryRegion values a behaviour can construct
RegionIds == 1..MaxRegions

\* a MemoryRegion not constructed yet; frees and unmaps count the VirtualFree
\* and UnmapViewOfFile calls issued for the value
NoRegion ==
  [ st |-> "none", address |-> 0, guest_address |-> 0, flags |-> 0, size |-> 0,
    backing |-> "Volatile", frees |-> 0, unmaps |-> 0 ]

NoRegions == [r \in RegionIds |-> NoRegion]

\* the property codes the hypervisor's committed values are tracked for
TrackedCodes == {"ProcessorCount", "NestedVirtualization"}

\* the properties a caller sets in the lifecycle specification
LifecycleProperties ==
  {ProcessorCount(count) : count \in Counts}
    \cup {Property("NestedVirtualization", <<(<<1>>)>>)}

\* the hypervisor's side of the partition: its state, the bytes it holds for
\* the tracked properties, the codes written by WHvSetPartitionProperty, the WHvSetupPartition calls, its
\* virtual processors, and the WHvDeletePartition calls it received.
\* The hypervisor before WHvCreatePartition:
NoNative ==
  [ state |-> "absent",
    props |-> [c \in TrackedCodes |-> Uninitialised(PropertyUnionSize)],
    written |-> {},
    setups |-> 0,
    vcpus |-> {},
    deletes |-> 0 ]

\* the hypervisor after WHvCreatePartition: the processor count of a fresh
\* partition is whatever the platform defaults to
CreatedNative(count) ==
  [ state |-> "created",
    props |-> [c \in TrackedCodes |->
                 IF c = "ProcessorCount"
                   THEN WHV_PARTITION_PROPERTY_from(ProcessorCount(count))
                   ELSE WHV_PARTITION_PROPERTY_from(Property(c, <<(<<0>>)>>))],
    written |-> {},
    setups |-> 0,
    vcpus |-> {},
    deletes |-> 0 ]

\* what WHvGetPartitionProperty leaves in the zeroed buffer it is handed
\* (partition.rs:692): the bytes the hypervisor holds for the code
NativeGet(stored) ==
  [i \in 1..PropertyUnionSize |-> IF stored[i] = Uninit THEN 0 ELSE stored[i]]

(* Arc<PartitionHandle> (partition.rs:645, 684; processor.rs:710).  A      *)
(* holder that releases its reference drops the PartitionHandle, and so    *)
(* runs Drop for PartitionHandle, only when it held the last reference.     *)
LastReference_every_holder(count) == TRUE

\* a release that takes the last-but-one reference for the last
LastReference_while_shared(count) == count <= 2

LastReference(count) == count = 1

\* partition.rs:637-642  impl Drop for PartitionHandle: WHvDeletePartition,
\* its result ignored
PartitionHandle_drop(nat) == [nat EXCEPT !.state = "deleted", !.deletes = @ + 1]

\* a release that forgets the handle instead of dropping it
Released_forgotten(nat, count) == nat

\* the hypervisor after a holder released its reference, `count` being the
\* strong count before the release
Released(nat, count) == IF LastReference(count) THEN PartitionHandle_drop(nat) ELSE nat

ReleaseCalls(count) ==
  IF LastReference(count) THEN <<Call("WHvDeletePartition", <<>>, TRUE)>> ELSE <<>>

\* partition.rs:619-622, 649-653  PartitionBuilder::new
PartitionBuilder_new ==
  /\ builder = "none"
  /\ \E ok \in BOOLEAN, count \in Counts :
       /\ op' = Operation("PartitionBuilder::new", <<>>)
       /\ calls' = <<Call("WHvCreatePartition", <<>>, ok)>>
       /\ IF ok
            THEN /\ builder' = "live"
                 /\ strong' = 1
                 /\ native' = CreatedNative(count)
                 /\ ret' = Ok("PartitionBuilder")
            ELSE /\ ret' = Err(Windows)
                 /\ UNCHANGED <<builder, strong, native>>
  /\ UNCHANGED <<partition, vps, input, output, arcs, regions>>

\* partition.rs:658-668  PartitionBuilder::property.  size_of the union fits
\* a u32, so the try_into never fails.  On failure `self` is dropped.
PartitionBuilder_property(prop) ==
  /\ builder = "live"
  /\ \E ok \in BOOLEAN :
       /\ op' = Operation("PartitionBuilder::property", prop)
       /\ IF ok
            THEN /\ native' = [native EXCEPT
                                   !.props[code(prop)] = WHV_PARTITION_PROPERTY_from(prop),
                                   !.written = @ \cup {code(prop)}]
                 /\ calls' = <<Call("WHvSetPartitionProperty", code(prop), TRUE)>>
                 /\ ret' = Ok("PartitionBuilder")
                 /\ UNCHANGED <<builder, strong>>
            ELSE /\ native' = Released(native, strong)
                 /\ calls' = <<Call("WHvSetPartitionProperty", code(prop), FALSE)>>
                               \o ReleaseCalls(strong)
                 /\ ret' = Err(Windows)
                 /\ builder' = "consumed"
                 /\ strong' = strong - 1
  /\ UNCHANGED <<partition, vps, input, output, arcs, regions>>

\* partition.rs:670-678  PartitionBuilder::setup.  The Partition takes a
\* clone of the Arc; `self` is dropped when setup returns, either way.
PartitionBuilder_setup ==
  /\ builder = "live"
  /\ \E ok \in BOOLEAN :
       /\ op' = Operation("PartitionBuilder::setup", <<>>)
       /\ builder' = "consumed"
       /\ IF ok
            THEN /\ partition' = [st |-> "live", memory_regions |-> <<>>]
                 /\ native' = Released([native EXCEPT !.state = "setup", !.setups = @ + 1],
                                       strong + 1)
                 /\ calls' = <<Call("WHvSetupPartition", <<>>, TRUE)>> \o ReleaseCalls(strong + 1)
                 /\ strong' = strong
                 /\ ret' = Ok("Partition")
            ELSE /\ native' = Released([native EXCEPT !.setups = @ + 1], strong)
                 /\ calls' = <<Call("WHvSetupPartition", <<>>, FALSE)>> \o ReleaseCalls(strong)
                 /\ strong' = strong - 1
                 /\ ret' = Err(Windows)
                 /\ UNCHANGED partition
  /\ UNCHANGED <<vps, input, output, arcs, regions>>

\* a PartitionBuilder that goes out of scope without setup
PartitionBuilder_drop ==
  /\ builder = "live"
  /\ op' = Operation("drop(PartitionBuilder)", <<>>)
  /\ builder' = "consumed"
  /\ native' = Released(native, strong)
  /\ calls' = ReleaseCalls(strong)
  /\ strong' = strong - 1
  /\ ret' = NoRet
  /\ UNCHANGED <<partition, vps, input, output, arcs, regions>>

\* partition.rs:691-705  Partition::query_property, as a function of the
\* outcome of WHvGetPartitionProperty: <<result, native calls>>.
\* raw_property is declared without `mut` and handed over as
\* transmute(&raw_property); the hypervisor stores through that pointer.
\* The buffer's address escapes to the foreign call, so the compiled code
\* reads the buffer back from memory afterwards: the value decoded is the
\* one the hypervisor stored.
query_property(prop_code, ok) ==
  IF ok
    THEN << PartitionProperty_from_union(prop_code, NativeGet(native.props[prop_code])),
            <<Call("WHvGetPartitionProperty", prop_code, TRUE)>> >>
    ELSE << Err(Windows), <<Call("WHvGetPartitionProperty", prop_code, FALSE)>> >>

Partition_query_property(prop_code) ==
  /\ partition.st = "live"
  /\ \E ok \in BOOLEAN :
       /\ op' = Operation("Partition::query_property", prop_code)
       /\ ret' = query_property(prop_code, ok)[1]
       /\ calls' = query_property(prop_code, ok)[2]
  /\ UNCHANGED <<builder, partition, vps, strong, native, input, output, arcs, regions>>

\* partition.rs:707-724  Partition::set_property
Partition_set_property(prop) ==
  /\ partition.st = "live"
  /\ op' = Operation("Partition::set_property", prop)
  /\ LET a == availibility(prop)
     IN  CASE a = Todo ->
                /\ ret' = Panic(Todo)
                /\ calls' = <<>>
                /\ UNCHANGED native
           [] a = "BeforeSetup" ->
                /\ ret' = Err(IncompatiblePropertyAvailibility(prop))
                /\ calls' = <<>>
                /\ UNCHANGED native
           [] a = "AfterSetup" ->
                \E ok \in BOOLEAN :
                  /\ calls' = <<Call("WHvSetPartitionProperty", code(prop), ok)>>
                  /\ IF ok
                       THEN /\ ret' = Ok(<<>>)
                            /\ native' = [native EXCEPT !.props[code(prop)] =
                                                          WHV_PARTITION_PROPERTY_from(prop)]
                       ELSE /\ ret' = Err(Windows)
                            /\ UNCHANGED native
  /\ UNCHANGED <<builder, partition, vps, strong, input, output, arcs, regions>>

\* a check that lets index == count through
IndexOutOfRange_off_by_one(index, count) == index > count

\* partition.rs:745  the match guard `if index >= count`
IndexOutOfRange(index, count) == index >= count

\* the VirtualProcessor value the next successful creation yields
FreshVp == CHOOSE v \in VpIds : vps[v].st = "none" /\ \A w \in VpIds : w < v => vps[w].st # "none"

\* partition.rs:742-754  Partition::create_virtual_processor; processor.rs:
\* 714-721 VirtualProcessor::new.  WHvCreateVirtualProcessor fails for an
\* index the hypervisor already has a processor for.
Partition_create_virtual_processor(index) ==
  /\ partition.st = "live"
  /\ \E v \in VpIds : vps[v].st = "none"
  /\ op' = Operation("Partition::create_virtual_processor", index)
  /\ \E okq \in BOOLEAN, okc \in BOOLEAN :
       LET q == query_property("ProcessorCount", okq)
           queried == q[1]
       IN  IF queried.kind # "Ok"
             THEN /\ ret' = queried
                  /\ calls' = q[2]
                  /\ UNCHANGED <<vps, strong, native>>
             ELSE IF /\ queried.val.variant = "ProcessorCount"
                     /\ IndexOutOfRange(index, FromLE(queried.val.v[1]))
               THEN /\ ret' = Err(InvalidVpIndex(index, FromLE(queried.val.v[1])))
                    /\ calls' = q[2]
                    /\ UNCHANGED <<vps, strong, native>>
               ELSE IF okc /\ index \notin native.vcpus
                 THEN /\ calls' = q[2] \o <<Call("WHvCreateVirtualProcessor", index, TRUE)>>
                      /\ native' = [native EXCEPT !.vcpus = @ \cup {index}]
                      /\ vps' = [vps EXCEPT ![FreshVp] = [st |-> "live", index |-> index]]
                      /\ strong' = strong + 1
                      /\ ret' = Ok([vp |-> FreshVp, index |-> index])
                 ELSE /\ calls' = q[2] \o <<Call("WHvCreateVirtualProcessor", index, FALSE)>>
                      /\ ret' = Err(Windows)
                      /\ UNCHANGED <<vps, strong, native>>
  /\ UNCHANGED <<builder, partition, input, output, arcs, regions>>

(***************************************************************************)
(* memory.rs: MemoryRegion, a host mapping handed to the partition.        *)
(***************************************************************************)
\* Result::unwrap() on an Err
UnwrapErr == "unwrap"

\* an access through a null pointer
Fault == "fault"

\* the host address VirtualAlloc / MapViewOfFile returns for the r-th region
\* when it succeeds; a failed call returns null (0)
HostAddress(r) == r * 65536

\* memory.rs:36  from_bytes(guest_address, flags, bytes): the arguments a
\* caller passes, as <<guest_address, flags.bits(), bytes.len()>>.
\* examples/simple.rs:36-40 maps six bytes at 0xF0000 with Read | Execute.
BytesSample == {<<983040, 5, 6>>, <<0, 3, 0>>}

\* memory.rs:54  from_file(guest_address, flags, file): the arguments, as
\* <<guest_address, flags.bits(), file>>, a file being its length in bytes
\* and the position of its cursor.  memory.rs:129-136 passes a file of 12
\* bytes just written, the cursor at its end.
FileSample ==
  { <<1048576, 1, [len |-> 12, pos |-> 12]>>, <<983040, 5, [len |-> 4096, pos |-> 0]>> }

\* a length taken from the cursor to the end of the file
stream_len_from_cursor(file) == file.len - file.pos

\* memory.rs:60  file.stream_len(): the length of the whole stream; the
\* cursor is put back where it was
stream_len(file) == file.len

\* the MemoryRegion value the next construction yields
FreshRegion ==
  CHOOSE r \in RegionIds :
    regions[r].st = "none" /\ \A q \in RegionIds : q < r => regions[q].st # "none"

\* memory.rs:45-51, 81-87  the struct literal both constructors end with
MemoryRegion(address, guest_address, flags, size, backing) ==
  [ st |-> "owned", address |-> address, guest_address |-> guest_address,
    flags |-> flags, size |-> size, backing |-> backing, frees |-> 0, unmaps |-> 0 ]

\* memory.rs:36-52  MemoryRegion::from_bytes.  The result of VirtualAlloc is
\* not checked.  VirtualAlloc fails for a length of zero.  After a failed
\* allocation copy_from writes bytes.len() bytes through a null pointer:
\* nothing is written for an empty slice; for a non-empty one the behaviour
\* is undefined, and the build either faults or goes on to return the value.
MemoryRegion_from_bytes(guest_address, flags, len) ==
  /\ \E r \in RegionIds : regions[r].st = "none"
  /\ op' = Operation("MemoryRegion::from_bytes", <<guest_address, flags, len>>)
  /\ \E ok \in (IF len = 0 THEN {FALSE} ELSE BOOLEAN),
        faulted \in (IF len = 0 THEN {FALSE} ELSE BOOLEAN) :
       LET address == IF ok THEN HostAddress(FreshRegion) ELSE 0
       IN  /\ calls' = <<Call("VirtualAlloc", len, ok)>>
           /\ IF ~ok /\ faulted
                THEN /\ ret' = Panic(Fault)
                     /\ UNCHANGED regions
                ELSE /\ regions' = [regions EXCEPT ![FreshRegion] =
                                      MemoryRegion(address, guest_address, flags, len, "Volatile")]
                     /\ ret' = Ok(FreshRegion)
  /\ UNCHANGED <<builder, partition, vps, strong, native, arcs, input, output>>

\* memory.rs:54-88  MemoryRegion::from_file.  stream_len is unwrapped; a
\* failed CreateFileMappingA or CloseHandle is returned as an error; the
\* result of MapViewOfFile is not checked.  A file length always fits a
\* usize on the 64-bit targets the platform supports (line 85).
MemoryRegion_from_file(guest_address, flags, file) ==
  /\ \E r \in RegionIds : regions[r].st = "none"
  /\ op' = Operation("MemoryRegion::from_file", <<guest_address, flags, file>>)
  /\ \E failing \in {"stream_len", "CreateFileMappingA", "MapViewOfFile", "CloseHandle", "none"} :
       LET mapping == Call("CreateFileMappingA", <<>>, failing # "CreateFileMappingA")
           view == Call("MapViewOfFile", <<>>, failing # "MapViewOfFile")
           close == Call("CloseHandle", <<>>, failing # "CloseHandle")
           address == IF view.ok THEN HostAddress(FreshRegion) ELSE 0
           file_len == stream_len(file)
       IN  CASE failing = "stream_len" ->
                  /\ ret' = Panic(UnwrapErr)
                  /\ calls' = <<>>
                  /\ UNCHANGED regions
             [] failing = "CreateFileMappingA" ->
                  /\ ret' = Err(Windows)
                  /\ calls' = <<mapping>>
                  /\ UNCHANGED regions
             [] failing = "CloseHandle" ->
                  /\ ret' = Err(Windows)
                  /\ calls' = <<mapping, view, close>>
                  /\ UNCHANGED regions
             [] OTHER ->
                  /\ ret' = Ok(FreshRegion)
                  /\ calls' = <<mapping, view, close>>
                  /\ regions' = [regions EXCEPT ![FreshRegion] =
                                   MemoryRegion(address, guest_address, flags, file_len, "File")]
  /\ UNCHANGED <<builder, partition, vps, strong, native, arcs, input, output>>

\* a Drop that frees whatever the backing is
release_operation_always_free(backing) == "VirtualFree"

\* memory.rs:93-102  the release operation Drop selects by self.backing
release_operation(backing) ==
  IF backing = "Volatile" THEN "VirtualFree" ELSE "UnmapViewOfFile"

\* VirtualFree(address, 0, MEM_RELEASE) and UnmapViewOfFile(address) succeed
\* for the base address of a live allocation or view, and fail for null
ReleaseSucceeds(memory_region) == memory_region.address # 0

\* memory.rs:91-105  impl Drop for MemoryRegion: the native call it issues
DropCall(memory_region) ==
  Call(release_operation(memory_region.backing), memory_region.address,
       ReleaseSucceeds(memory_region))

\* memory.rs:91-105  impl Drop for MemoryRegion: the value after its drop
MemoryRegion_dropped(memory_region) ==
  [memory_region EXCEPT
     !.st = "dropped",
     !.frees = IF DropCall(memory_region).fn = "VirtualFree" THEN @ + 1 ELSE @,
     !.unmaps = IF DropCall(memory_region).fn = "UnmapViewOfFile" THEN @ + 1 ELSE @]

\* the drop of a Vec<MemoryRegion>: the native calls, element by element
RECURSIVE DropCalls(_)
DropCalls(memory_regions) ==
  IF memory_regions = <<>>
    THEN <<>>
    ELSE <<DropCall(regions[Head(memory_regions)])>> \o DropCalls(Tail(memory_regions))

\* a MemoryRegion the caller owns goes out of scope
MemoryRegion_drop(r) ==
  /\ regions[r].st = "owned"
  /\ op' = Operation("drop(MemoryRegion)", r)
  /\ regions' = [regions EXCEPT ![r] = MemoryRegion_dropped(regions[r])]
  /\ calls' = <<DropCall(regions[r])>>
  /\ ret' = IF ReleaseSucceeds(regions[r]) THEN NoRet ELSE Panic(UnwrapErr)
  /\ UNCHANGED <<builder, partition, vps, strong, native, arcs, input, output>>

\* arguments in which the guest address and the size changed places
map_gpa_range_args_swapped(memory_region) ==
  [ address |-> memory_region.address, guest_address |-> memory_region.size,
    size |-> memory_region.guest_address, flags |-> memory_region.flags ]

\* partition.rs:728-734  the arguments of WHvMapGpaRange after the handle.
\* guest_address and size are usize values converted to u64 by try_into,
\* which keeps the number and cannot fail; flags.into() is flags.bits()
\* (flags.rs:64-68).
map_gpa_range_args(memory_region) ==
  [ address |-> memory_region.address, guest_address |-> memory_region.guest_address,
    size |-> memory_region.size, flags |-> memory_region.flags ]

\* the outcomes of WHvMapGpaRange: the hypervisor rejects a null source
\* address and an empty range, and may reject any other
MapGpaRangeOutcomes(memory_region) ==
  IF memory_region.address = 0 \/ memory_region.size = 0 THEN {FALSE} ELSE BOOLEAN

\* partition.rs:726-740  Partition::map_memory_region.  memory_region is
\* taken by value: when the native call fails, `?` returns and the value is
\* dropped with the function's frame.
Partition_map_memory_region(r) ==
  /\ partition.st = "live"
  /\ regions[r].st = "owned"
  /\ op' = Operation("Partition::map_memory_region", r)
  /\ \E ok \in MapGpaRangeOutcomes(regions[r]) :
       LET map == Call("WHvMapGpaRange", map_gpa_range_args(regions[r]), ok)
       IN  IF ok
             THEN /\ partition' = [partition EXCEPT !.memory_regions = Append(@, r)]
                  /\ regions' = [regions EXCEPT ![r].st = "mapped"]
                  /\ calls' = <<map>>
                  /\ ret' = Ok(<<>>)
             ELSE /\ regions' = [regions EXCEPT ![r] = MemoryRegion_dropped(regions[r])]
                  /\ calls' = <<map, DropCall(regions[r])>>
                  /\ ret' = IF ReleaseSucceeds(regions[r]) THEN Err(Windows)
                                                           ELSE Panic(UnwrapErr)
                  /\ UNCHANGED partition
  /\ UNCHANGED <<builder, vps, strong, native, arcs, input, output>>

\* partition.rs:683-686  a Partition that goes out of scope: its fields are
\* dropped in declaration order, arc_handle first, then every MemoryRegion
\* of memory_regions in the order of the Vec
Partition_drop ==
  /\ partition.st = "live"
  /\ op' = Operation("drop(Partition)", <<>>)
  /\ partition' = [st |-> "dropped", memory_regions |-> <<>>]
  /\ native' = Released(native, strong)
  /\ calls' = ReleaseCalls(strong) \o DropCalls(partition.memory_regions)
  /\ regions' = [r \in RegionIds |->
                   IF regions[r].st = "mapped" THEN MemoryRegion_dropped(regions[r])
                                               ELSE regions[r]]
  /\ strong' = strong - 1
  /\ ret' = IF \E i \in 1..Len(partition.memory_regions) :
                  ~ReleaseSucceeds(regions[partition.memory_regions[i]])
              THEN Panic(UnwrapErr)
              ELSE NoRet
  /\ UNCHANGED <<builder, vps, input, output, arcs>>

\* processor.rs:794-798  impl Drop for VirtualProcessor: the drop body, run
\* by whichever thread owns the value.  WHvDeleteVirtualProcessor succeeds
\* when the hypervisor has a processor of that index; its result is ignored.
VirtualProcessor_drop(v) ==
  /\ vps[v].st = "live"
  /\ op' = Operation("drop(VirtualProcessor)", v)
  /\ vps' = [vps EXCEPT ![v].st = "fields"]
  /\ native' = [native EXCEPT !.vcpus = @ \ {vps[v].index}]
  /\ calls' = <<Call("WHvDeleteVirtualProcessor", vps[v].index, vps[v].index \in native.vcpus)>>
  /\ ret' = NoRet
  /\ UNCHANGED <<builder, partition, strong, input, output, arcs, regions>>

\* ... after which its partition_handle field is released
VirtualProcessor_drop_fields(v) ==
  /\ vps[v].st = "fields"
  /\ op' = Operation("drop(VirtualProcessor.partition_handle)", v)
  /\ vps' = [vps EXCEPT ![v].st = "dropped"]
  /\ native' = Released(native, strong)
  /\ calls' = ReleaseCalls(strong)
  /\ strong' = strong - 1
  /\ ret' = NoRet
  /\ UNCHANGED <<builder, partition, input, output, arcs, regions>>

(***************************************************************************)
(* lib.rs: capabilities.                                                   *)
(***************************************************************************)
\* lib.rs:69-77  enum CapabilityCode
CapabilityCode ==
  { "HypervisorPresent", "Features", "ExtendedVmExits", "ProcessorVendor",
    "ProcessorFeatures", "ProcessorClFlushSize", "ProcessorXsaveFeatures" }

\* the members of WHV_CAPABILITY that from_union reads, with the slots of
\* their native types: a BOOL, the AsUINT64 of the four flag sets, the
\* WHV_PROCESSOR_VENDOR discriminant (lib.rs:55-65) and a u8
WHV_CAPABILITY ==
  [ HypervisorPresent |-> <<BoolField(0)>>,
    Features |-> <<IntField(0, 8)>>,
    ExtendedVmExits |-> <<IntField(0, 8)>>,
    ProcessorVendor |-> <<EnumField(0)>>,
    ProcessorFeatures |-> <<IntField(0, 8)>>,
    ProcessorClFlushSize |-> <<IntField(0, 1)>>,
    ProcessorXsaveFeatures |-> <<IntField(0, 8)>> ]

\* one arm of Capability::from_union: Capability::variant(cap.member.into())
FromCapabilityMember(variant, member, cap) ==
  IF DecodePanics(cap, WHV_CAPABILITY[member])
    THEN Panic(Unreachable)
    ELSE Ok([ variant |-> variant, member |-> member,
              v |-> DecodeFrom(cap, WHV_CAPABILITY[member]) ])

\* a from_union whose last two arms follow the order of enum Capability
\* (lib.rs:108-109) instead of the order of enum CapabilityCode
Capability_from_union_enum_order(code_, cap) ==
  CASE code_ = "ProcessorClFlushSize" ->
         FromCapabilityMember("ProcessorXsaveFeatures", "ProcessorXsaveFeatures", cap)
    [] code_ = "ProcessorXsaveFeatures" ->
         FromCapabilityMember("ProcessorClFlushSize", "ProcessorClFlushSize", cap)
    [] OTHER -> FromCapabilityMember(code_, code_, cap)

\* lib.rs:112-139  Capability::from_union
Capability_from_union(code_, cap) ==
  CASE code_ = "HypervisorPresent" -> FromCapabilityMember("HypervisorPresent", "HypervisorPresent", cap)
    [] code_ = "Features" -> FromCapabilityMember("Features", "Features", cap)
    [] code_ = "ExtendedVmExits" -> FromCapabilityMember("ExtendedVmExits", "ExtendedVmExits", cap)
    [] code_ = "ProcessorVendor" -> FromCapabilityMember("ProcessorVendor", "ProcessorVendor", cap)
    [] code_ = "ProcessorFeatures" -> FromCapabilityMember("ProcessorFeatures", "ProcessorFeatures", cap)
    [] code_ = "ProcessorClFlushSize" -> FromCapabilityMember("ProcessorClFlushSize", "ProcessorClFlushSize", cap)
    [] code_ = "ProcessorXsaveFeatures" -> FromCapabilityMember("ProcessorXsaveFeatures", "ProcessorXsaveFeatures", cap)

\* what WHvGetCapability may leave in the first eight bytes of `cap`: every
\* byte the pattern, or bytes that differ from one another
CapabilityPatterns == (0..15) \cup {255, 256}

RawCapability(pattern) == [i \in 1..8 |-> IF pattern = 256 THEN i ELSE pattern]

\* lib.rs:142-153  query_capability, as a function of the outcome of
\* WHvGetCapability and of the bytes it stored: <<result, native calls>>.
\* size_of::<WHV_CAPABILITY>() fits a u32, so the try_into never fails.
query_capability(code_, ok, cap) ==
  LET call == Call("WHvGetCapability", [code |-> code_, cap |-> cap], ok)
  IN  IF ok THEN <<Capability_from_union(code_, cap), <<call>>>>
      ELSE <<Err(Windows), <<call>>>>

\* a caller invokes query_capability(code)
Query_capability(code_) ==
  /\ op' = Operation("query_capability", code_)
  /\ \E ok \in BOOLEAN, pattern \in CapabilityPatterns :
       LET r == query_capability(code_, ok, RawCapability(pattern))
       IN  /\ ret' = r[1]
           /\ calls' = r[2]
  /\ UNCHANGED <<builder, partition, vps, strong, native, arcs, regions, input, output>>

(***************************************************************************)
(* processor.rs: VirtualProcessor operations.                              *)
(***************************************************************************)
\* what WHvRunVirtualProcessor may leave in the payload union and in
\* VpContext: 0xD0 is a discriminant of ApicWriteType, 0..2 cover the listed
\* and unlisted discriminants of the other payload enums
ExitPayloads == {0, 1, 2, 208}

\* the exit-reason numbers the lifecycle specification draws from: a reason
\* without payload, one with a payload, one outside the table
LifecycleExitReasons == {8, 4097, 11}

\* the payload the lifecycle specification draws
LifecyclePayloads == {1}

\* run that hands back the decoded buffer whatever the native call returned
run_result_default_filled(ok, raw_exit_context) == RunExitContext_from(raw_exit_context)

\* processor.rs:727-734  the `?` on the native call, then
\* Ok(raw_exit_context.into())
run_result(ok, raw_exit_context) ==
  IF ok THEN RunExitContext_from(raw_exit_context) ELSE Err(Windows)

\* processor.rs:724-735  VirtualProcessor::run.  size_of the exit context
\* fits a u32, so the try_into never fails.  A failed call leaves the
\* buffer as Default::default() made it.
VirtualProcessor_run(v, reasons, payloads) ==
  /\ vps[v].st = "live"
  /\ op' = Operation("VirtualProcessor::run", v)
  /\ \E ok \in BOOLEAN, reason \in reasons, context \in payloads, payload \in payloads :
       LET raw_exit_context ==
             IF ok THEN [ExitReason |-> reason, VpContext |-> context, Anonymous |-> payload]
             ELSE [ExitReason |-> 0, VpContext |-> 0, Anonymous |-> 0]
       IN  /\ calls' = <<Call("WHvRunVirtualProcessor",
                              [index |-> vps[v].index, context |-> raw_exit_context], ok)>>
           /\ ret' = run_result(ok, raw_exit_context)
  /\ UNCHANGED <<builder, partition, vps, strong, native, input, output, arcs, regions>>

\* the registers batches are drawn from: one of every arm of Register::ty
RegisterSample ==
  { "Rax", "Cs", "Idtr", "Cr0", "Dr0", "XCr0", "Xmm0", "FpMmx0", "FpControlStatus",
    "XmmControlStatus", "Tsc", "ApicId", "Sint0", "PendingInterruption" }

\* the sequences over S of length at most n
RECURSIVE SeqsUpTo(_, _)
SeqsUpTo(S, n) ==
  IF n = 0 THEN {<<>>}
  ELSE LET shorter == SeqsUpTo(S, n - 1)
       IN  shorter \cup {Append(s, x) : s \in shorter, x \in S}

\* processor.rs:784-790  the decode step of get_registers: registers zipped
\* with the raw values, each decoded with r.ty(); r.ty() may panic
get_registers_decode(registers, raw_values) ==
  IF \E i \in 1..Len(registers) : ty(registers[i]) = Todo
    THEN Panic(Todo)
    ELSE Ok([i \in 1..Len(registers) |->
               << registers[i], RegisterVal_from_union(ty(registers[i]), raw_values[i]) >>])

\* processor.rs:764-791  VirtualProcessor::get_registers, as a function of
\* the outcome of the native call and of the values it stored:
\* <<result, native calls>>.  A batch length always fits a u32 here.
get_registers(index, registers, ok, raw_values) ==
  LET raw_registers == [i \in 1..Len(registers) |-> WHV_REGISTER_NAME_from(registers[i])]
      call == Call("WHvGetVirtualProcessorRegisters",
                   [ index |-> index, names |-> raw_registers,
                     count |-> Len(raw_registers), values |-> raw_values ], ok)
  IN  IF ok THEN <<get_registers_decode(registers, raw_values), <<call>>>>
      ELSE <<Err(Windows), <<call>>>>

VirtualProcessor_get_registers(v, registers) ==
  /\ vps[v].st = "live"
  /\ op' = Operation("VirtualProcessor::get_registers", registers)
  /\ \E ok \in BOOLEAN, patterns \in [1..Len(registers) -> Patterns] :
       LET raw_values == [i \in 1..Len(registers) |-> RawRegisterValue(patterns[i])]
           r == get_registers(vps[v].index, registers, ok, raw_values)
       IN  /\ ret' = r[1]
           /\ calls' = r[2]
  /\ UNCHANGED <<builder, partition, vps, strong, native, input, output, arcs, regions>>

\* processor.rs:760-762  VirtualProcessor::get_register
VirtualProcessor_get_register(v, register) ==
  /\ vps[v].st = "live"
  /\ op' = Operation("VirtualProcessor::get_register", register)
  /\ \E ok \in BOOLEAN, pattern \in Patterns :
       LET raw_values == <<RawRegisterValue(pattern)>>
           r == get_registers(vps[v].index, <<register>>, ok, raw_values)
       IN  /\ ret' = IF r[1].kind = "Ok" THEN Ok(r[1].val[1][2]) ELSE r[1]
           /\ calls' = r[2]
  /\ UNCHANGED <<builder, partition, vps, strong, native, input, output, arcs, regions>>

\* a set_registers that writes the pairs one native call at a time
set_registers_one_by_one(index, register_vals, ok) ==
  << IF ok THEN Ok(<<>>) ELSE Err(Windows),
     [i \in 1..Len(register_vals) |->
        Call("WHvSetVirtualProcessorRegisters",
             [ index |-> index,
               names |-> <<WHV_REGISTER_NAME_from(register_vals[i][1])>>,
               count |-> 1,
               values |-> <<WHV_REGISTER_VALUE_from(register_vals[i][2])>> ], ok)] >>

\* processor.rs:741-758  VirtualProcessor::set_registers, as a function of
\* the outcome of the native call: <<result, native calls>>
set_registers(index, register_vals, ok) ==
  LET raw_registers ==
        [i \in 1..Len(register_vals) |-> WHV_REGISTER_NAME_from(register_vals[i][1])]
      raw_values ==
        [i \in 1..Len(register_vals) |-> WHV_REGISTER_VALUE_from(register_vals[i][2])]
      call == Call("WHvSetVirtualProcessorRegisters",
                   [ index |-> index, names |-> raw_registers,
                     count |-> Len(raw_registers), values |-> raw_values ], ok)
  IN  IF ok THEN <<Ok(<<>>), <<call>>>> ELSE <<Err(Windows), <<call>>>>

\* the (register, value) pairs set_registers is exercised on: values of the
\* register's own type and of other types
SetSample ==
  { <<r, RegisterValSample(t, 2)>> :
      r \in {"Rax", "Cs", "Sint0"}, t \in {"Reg64", "Segment", "Reg128", "Table"} }

VirtualProcessor_set_registers(v, register_vals) ==
  /\ vps[v].st = "live"
  /\ op' = Operation("VirtualProcessor::set_registers", register_vals)
  /\ \E ok \in BOOLEAN :
       /\ ret' = set_registers(vps[v].index, register_vals, ok)[1]
       /\ calls' = set_registers(vps[v].index, register_vals, ok)[2]
  /\ UNCHANGED <<builder, partition, vps, strong, native, input, output, arcs, regions>>

\* processor.rs:737-739  VirtualProcessor::set_register
VirtualProcessor_set_register(v, register, value) ==
  /\ vps[v].st = "live"
  /\ op' = Operation("VirtualProcessor::set_register", <<register, value>>)
  /\ \E ok \in BOOLEAN :
       /\ ret' = set_registers(vps[v].index, <<(<<register, value>>)>>, ok)[1]
       /\ calls' = set_registers(vps[v].index, <<(<<register, value>>)>>, ok)[2]
  /\ UNCHANGED <<builder, partition, vps, strong, native, input, output, arcs, regions>>

(***************************************************************************)
(* The public constructors beside the builder: PartitionHandle::new and    *)
(* VirtualProcessor::new are `pub`, so a caller can wrap a handle of its   *)
(* own in an Arc and build virtual processors on it.                       *)
(***************************************************************************)
\* partition.rs:618-623  PartitionHandle::new, the caller keeping the handle
\* in an Arc (the type VirtualProcessor::new takes)
PartitionHandle_new ==
  /\ builder = "none"
  /\ native.state = "absent"
  /\ arcs = 0
  /\ \E ok \in BOOLEAN, count \in Counts :
       /\ op' = Operation("PartitionHandle::new", <<>>)
       /\ calls' = <<Call("WHvCreatePartition", <<>>, ok)>>
       /\ IF ok
            THEN /\ arcs' = 1
                 /\ strong' = 1
                 /\ native' = CreatedNative(count)
                 /\ ret' = Ok("PartitionHandle")
            ELSE /\ ret' = Err(Windows)
                 /\ UNCHANGED <<arcs, strong, native>>
  /\ UNCHANGED <<builder, partition, vps, regions, input, output>>

\* processor.rs:715-721  VirtualProcessor::new(handle.clone(), index): the
\* fields are stored, no native call is made
VirtualProcessor_new(index) ==
  /\ arcs >= 1
  /\ \E v \in VpIds : vps[v].st = "none"
  /\ op' = Operation("VirtualProcessor::new", index)
  /\ vps' = [vps EXCEPT ![FreshVp] = [st |-> "live", index |-> index]]
  /\ strong' = strong + 1
  /\ calls' = <<>>
  /\ ret' = Ok([vp |-> FreshVp, index |-> index])
  /\ UNCHANGED <<builder, partition, native, arcs, regions, input, output>>

\* the caller's Arc<PartitionHandle> goes out of scope
Arc_drop ==
  /\ arcs >= 1
  /\ op' = Operation("drop(Arc<PartitionHandle>)", <<>>)
  /\ arcs' = arcs - 1
  /\ native' = Released(native, strong)
  /\ calls' = ReleaseCalls(strong)
  /\ strong' = strong - 1
  /\ ret' = NoRet
  /\ UNCHANGED <<builder, partition, vps, regions, input, output>>

\* partition.rs:625-629  impl From<PartitionHandle> for WHV_PARTITION_HANDLE,
\* applied to a handle the caller alone owns.  `handle.0` copies the raw
\* handle out (it is Copy); `handle` itself is dropped when the function
\* returns, which runs Drop for PartitionHandle.
WHV_PARTITION_HANDLE_from ==
  /\ arcs = 1
  /\ strong = 1
  /\ op' = Operation("WHV_PARTITION_HANDLE::from", <<>>)
  /\ arcs' = 0
  /\ strong' = 0
  /\ native' = PartitionHandle_drop(native)
  /\ calls' = <<Call("WHvDeletePartition", <<>>, TRUE)>>
  /\ ret' = Ok("WHV_PARTITION_HANDLE")
  /\ UNCHANGED <<builder, partition, vps, regions, input, output>>

(***************************************************************************)
(* flags.rs: ExtendedVmExits, a bitflags! set over u64.                    *)
(***************************************************************************)
\* flags.rs:1, 73-98  the constants of ExtendedVmExits.  The module note says
\* the numbers are bit positions; bitflags! takes the number after `=` as
\* the bits of the flag, so each constant is the u64 written here.
ExtendedVmExitsBits ==
  [ CpuId |-> 1, Msr |-> 2, Exception |-> 3, Rdtsc |-> 4, ApicSmiTrap |-> 5,
    Hypercall |-> 6, ApicInitSipiTrap |-> 7, ApicWriteLint0Trap |-> 8,
    ApicWriteLint1Trap |-> 9, ApicWriteSvrTrap |-> 10,
    UnknownSynicConnection |-> 11, RetargetUnknownVpciDevice |-> 12,
    ApicWriteLdrTrap |-> 13, ApicWriteDfrTrap |-> 14, GpaAccessFault |-> 15 ]

\* the named flags of ExtendedVmExits
ExtendedVmExitsNames == DOMAIN ExtendedVmExitsBits

\* u64 `|` and `&`, bit by bit from the least significant
RECURSIVE BitOr(_, _)
BitOr(a, b) ==
  IF a = 0 THEN b
  ELSE IF b = 0 THEN a
  ELSE (IF a % 2 = 1 \/ b % 2 = 1 THEN 1 ELSE 0) + 2 * BitOr(a \div 2, b \div 2)

RECURSIVE BitAnd(_, _)
BitAnd(a, b) ==
  IF a = 0 \/ b = 0 THEN 0
  ELSE (IF a % 2 = 1 /\ b % 2 = 1 THEN 1 ELSE 0) + 2 * BitAnd(a \div 2, b \div 2)

\* bitflags: ExtendedVmExits::empty() | f1 | f2 | ..., the union of the
\* named flags in `names`
RECURSIVE ExtendedVmExits_union(_)
ExtendedVmExits_union(names) ==
  IF names = {}
    THEN 0
    ELSE LET f == CHOOSE n \in names : TRUE
         IN  BitOr(ExtendedVmExitsBits[f], ExtendedVmExits_union(names \ {f}))

\* bitflags: self.contains(other), every bit of `other` is set in self
ExtendedVmExits_contains(bits, other) == BitAnd(bits, other) = other

\* flags.rs:109-115  impl From<ExtendedVmExits> for WHV_EXTENDED_VM_EXITS:
\* AsUINT64 is value.bits(), here as the bytes of the u64
WHV_EXTENDED_VM_EXITS_from(bits) == LE(bits, 8)

\* flags.rs:101-107  impl From<WHV_EXTENDED_VM_EXITS> for ExtendedVmExits:
\* from_bits_retain(value.AsUINT64)
ExtendedVmExits_from(AsUINT64) == FromLE(AsUINT64)

\* the named flags a value contains
ExtendedVmExits_named(bits) ==
  {f \in ExtendedVmExitsNames : ExtendedVmExits_contains(bits, ExtendedVmExitsBits[f])}

(***************************************************************************)
(* Specifications.                                                         *)
(***************************************************************************)
\* the pure-function variables, in the specifications that do not use them
NoPure == input = <<>> /\ output = NoRet

\* before any call: no builder, no partition, no virtual processor
Init ==
  /\ builder = "none"
  /\ partition = NoPartition
  /\ vps = [v \in VpIds |-> NoVp]
  /\ strong = 0
  /\ native = NoNative
  /\ op = Operation("none", <<>>)
  /\ ret = NoRet
  /\ calls = <<>>
  /\ arcs = 0
  /\ regions = NoRegions
  /\ NoPure

Next ==
  \/ PartitionBuilder_new
  \/ \E prop \in LifecycleProperties : PartitionBuilder_property(prop)
  \/ PartitionBuilder_setup
  \/ PartitionBuilder_drop
  \/ \E prop_code \in TrackedCodes : Partition_query_property(prop_code)
  \/ \E prop \in LifecycleProperties : Partition_set_property(prop)
  \/ \E index \in Indices : Partition_create_virtual_processor(index)
  \/ Partition_drop
  \/ \E v \in VpIds : VirtualProcessor_run(v, LifecycleExitReasons, LifecyclePayloads)
  \/ \E v \in VpIds : VirtualProcessor_get_register(v, "Rax")
  \/ \E v \in VpIds : VirtualProcessor_drop(v)
  \/ \E v \in VpIds : VirtualProcessor_drop_fields(v)

\* the partition lifecycle: builder, partition, virtual processors, drops
Spec == Init /\ [][Next]_vars

\* as examples/simple.rs:23-42 leaves the program: a partition set up with
\* ProcessorCount 1 and its virtual processor 0
InitVp ==
  /\ builder = "consumed"
  /\ partition = [st |-> "live", memory_regions |-> <<>>]
  /\ vps = [v \in VpIds |-> IF v = 1 THEN [st |-> "live", index |-> 0] ELSE NoVp]
  /\ strong = 2
  /\ native = [CreatedNative(1) EXCEPT !.state = "setup", !.vcpus = {0},
                                       !.written = {"ProcessorCount"}, !.setups = 1]
  /\ op = Operation("none", <<>>)
  /\ ret = NoRet
  /\ calls = <<>>
  /\ arcs = 0
  /\ regions = NoRegions
  /\ NoPure

\* no call is in progress on the virtual processor
Idle == op.name = "none"

\* the caller takes the result of the call; the next call can begin
Return ==
  /\ ~Idle
  /\ op' = Operation("none", <<>>)
  /\ ret' = NoRet
  /\ calls' = <<>>
  /\ UNCHANGED <<builder, partition, vps, strong, native, input, output, arcs, regions>>

NextRun ==
  \/ Idle /\ \E v \in VpIds : VirtualProcessor_run(v, ExitReasonNumbers, ExitPayloads)
  \/ Return

\* VirtualProcessor::run over every exit-reason number
SpecRun == InitVp /\ [][NextRun]_vars

NextReg ==
  \/ Idle /\ \E v \in VpIds, registers \in SeqsUpTo(RegisterSample, MaxRegs) :
               VirtualProcessor_get_registers(v, registers)
  \/ Idle /\ \E v \in VpIds, register \in Register : VirtualProcessor_get_register(v, register)
  \/ Idle /\ \E v \in VpIds, register_vals \in SeqsUpTo(SetSample, MaxRegs) :
               VirtualProcessor_set_registers(v, register_vals)
  \/ Idle /\ \E v \in VpIds, pair \in SetSample :
               VirtualProcessor_set_register(v, pair[1], pair[2])
  \/ Return

\* the register access layer of a live virtual processor
SpecReg == InitVp /\ [][NextReg]_vars

\* the lifecycle variables, in the pure-function specifications
NoLife ==
  /\ builder = "none"
  /\ partition = NoPartition
  /\ vps = [v \in VpIds |-> NoVp]
  /\ strong = 0
  /\ native = NoNative
  /\ op = Operation("none", <<>>)
  /\ ret = NoRet
  /\ calls = <<>>
  /\ arcs = 0
  /\ regions = NoRegions

InitTy == NoLife /\ input \in Register /\ output = NoRet

\* register.ty() on the register drawn
Apply_ty ==
  /\ output = NoRet
  /\ output' = IF ty(input) = Todo THEN Panic(Todo) ELSE Ok(ty(input))
  /\ UNCHANGED <<lifeVars, input>>

\* Register::ty over the whole Register enum
SpecTy == InitTy /\ [][Apply_ty]_vars

InitProp ==
  /\ NoLife
  /\ input \in UNION {PropertySamples(variant) : variant \in PartitionPropertyVariants}
  /\ output = NoRet

\* PartitionProperty::from_union(p.code(), WHV_PARTITION_PROPERTY::from(p))
Apply_roundtrip ==
  /\ output = NoRet
  /\ output' = PartitionProperty_from_union(code(input), WHV_PARTITION_PROPERTY_from(input))
  /\ UNCHANGED <<lifeVars, input>>

\* the partition property codec over every variant
SpecProp == InitProp /\ [][Apply_roundtrip]_vars

\* raw unions as WHvGetPartitionProperty may fill them: every byte 0, 1, 2,
\* 3 or 0xFF, and bytes that differ from one another
RawPatterns == {0, 1, 2, 3, 255, 256}

RawProperty(pattern) ==
  [i \in 1..PropertyUnionSize |-> IF pattern = 256 THEN i ELSE pattern]

InitDecode ==
  /\ NoLife
  /\ input \in [code : PartitionPropertyCode, raw_val : {RawProperty(p) : p \in RawPatterns}]
  /\ output = NoRet

\* PartitionProperty::from_union(code, raw_val), as query_property applies it
Apply_from_union ==
  /\ output = NoRet
  /\ output' = PartitionProperty_from_union(input.code, input.raw_val)
  /\ UNCHANGED <<lifeVars, input>>

\* PartitionProperty::from_union over every code and raw payloads
SpecDecode == InitDecode /\ [][Apply_from_union]_vars

\* a RegisterVal of every variant, and for from_union on its own a register
\* type with a raw value as WHvGetVirtualProcessorRegisters may leave it
InitRegVal ==
  /\ NoLife
  /\ input \in [ value : {RegisterValSample(variant, pattern) :
                            variant \in RegisterType, pattern \in Patterns},
                 ty : RegisterType,
                 raw_val : {RawRegisterValue(pattern) : pattern \in Patterns} ]
  /\ output = NoRet

\* RegisterVal::from_union(T, WHV_REGISTER_VALUE::from(v)), T named as v's variant
Apply_register_roundtrip ==
  /\ output = NoRet
  /\ output' = Ok([ by |-> "roundtrip",
                    value |-> RegisterVal_from_union(input.value.variant,
                                                     WHV_REGISTER_VALUE_from(input.value)) ])
  /\ UNCHANGED <<lifeVars, input>>

\* RegisterVal::from_union(ty, raw_val), as get_registers applies it
Apply_register_from_union ==
  /\ output = NoRet
  /\ output' = Ok([ by |-> "from_union",
                    value |-> RegisterVal_from_union(input.ty, input.raw_val) ])
  /\ UNCHANGED <<lifeVars, input>>

NextRegVal == Apply_register_roundtrip \/ Apply_register_from_union

\* the register value codec over every variant
SpecRegVal == InitRegVal /\ [][NextRegVal]_vars

\* the vCPU indices a caller passes to VirtualProcessor::new
HandleIndices == {0, 1}

NextHandle ==
  \/ PartitionHandle_new
  \/ \E index \in HandleIndices : VirtualProcessor_new(index)
  \/ Arc_drop
  \/ WHV_PARTITION_HANDLE_from
  \/ \E v \in VpIds : VirtualProcessor_run(v, {8}, LifecyclePayloads)
  \/ \E v \in VpIds, register \in {"Rax"} : VirtualProcessor_get_register(v, register)
  \/ \E v \in VpIds : VirtualProcessor_drop(v)
  \/ \E v \in VpIds : VirtualProcessor_drop_fields(v)

\* virtual processors built with the public constructors on a handle of the
\* caller's own
SpecHandle == Init /\ [][NextHandle]_vars

NextMem ==
  \/ \E args \in BytesSample : MemoryRegion_from_bytes(args[1], args[2], args[3])
  \/ \E args \in FileSample : MemoryRegion_from_file(args[1], args[2], args[3])
  \/ \E r \in RegionIds : Partition_map_memory_region(r)
  \/ \E r \in RegionIds : MemoryRegion_drop(r)
  \/ Partition_drop
  \/ \E v \in VpIds : VirtualProcessor_drop(v)
  \/ \E v \in VpIds : VirtualProcessor_drop_fields(v)

\* memory regions built, mapped into a set-up partition and dropped
SpecMem == InitVp /\ [][NextMem]_vars

NextCap ==
  \/ Idle /\ \E code_ \in CapabilityCode : Query_capability(code_)
  \/ Return

\* examples/simple.rs:10-21  capabilities queried before any partition exists
SpecCap == Init /\ [][NextCap]_vars

\* named flags a caller joins into one ExtendedVmExits value
MaxFlags == 2

\* a caller's choice of named flags
InitFlags ==
  /\ NoLife
  /\ input \in {S \in SUBSET ExtendedVmExitsNames : Cardinality(S) <= MaxFlags}
  /\ output = NoRet

\* the value f1 | f2 | ... of the chosen flags, asked for each named flag
Apply_ExtendedVmExits_union ==
  /\ output = NoRet
  /\ output' = Ok([ by |-> "union",
                    contains |-> ExtendedVmExits_named(ExtendedVmExits_union(input)) ])
  /\ UNCHANGED <<lifeVars, input>>

\* partition.rs:536-538  PartitionProperty::ExtendedVmExits(f1 | f2 | ...)
\* converted to the union handed to WHvSetPartitionProperty, and the flags
\* its ExtendedVmExits member holds
Apply_ExtendedVmExits_property ==
  /\ output = NoRet
  /\ LET value == Property("ExtendedVmExits",
                           <<WHV_EXTENDED_VM_EXITS_from(ExtendedVmExits_union(input))>>)
         raw == WHV_PARTITION_PROPERTY_from(value)
         AsUINT64 == ReadAt(raw, 0, 8)
     IN  output' = Ok([ by |-> "property",
                        contains |-> ExtendedVmExits_named(ExtendedVmExits_from(AsUINT64)) ])
  /\ UNCHANGED <<lifeVars, input>>

NextFlags == Apply_ExtendedVmExits_union \/ Apply_ExtendedVmExits_property

\* ExtendedVmExits values built from named flags
SpecFlags == InitFlags /\ [][NextFlags]_vars

(***************************************************************************)
(* Properties.                                                             *)
(***************************************************************************)
\* the numbers RunExitReason::from recognises
RecognisedNumbers == {RunExitReasonDiscriminant[r] : r \in RunExitReason}

\* the reasons documented to carry no payload
NoPayloadReasons == {"None", "UnrecoverableException", "InvalidVpRegisterValue", "X64Halt"}

\* the extension variant designated for each reason that carries one
DesignatedExt ==
  [ MemoryAccess |-> "MemoryAccess", X64IoPortAccess |-> "IoPortAccess",
    UnsupportedFeature |-> "UnsupportedFeature", X64InterruptWindow |-> "InterruptWindow",
    X64ApicEoi |-> "ApicEoi", SynicSintDeliverable |-> "SynicSintDeliverable",
    X64MsrAccess |-> "MsrAccess", X64Cpuid |-> "CpuidAccess", Exception |-> "VpException",
    X64Rdtsc |-> "ReadTsc", X64ApicSmiTrap |-> "ApicSmi", Hypercall |-> "Hypercall",
    X64ApicInitSipiTrap |-> "ApicInitSipi", X64ApicWriteTrap |-> "ApicWrite",
    Canceled |-> "CancelReason" ]

RunReturned == op.name = "VirtualProcessor::run" /\ ret.kind = "Ok"

\* C1: a decoded exit context has ext == None exactly when its reason is one
\* of the four documented to carry no payload, and otherwise Some(e) with e
\* the variant designated for the reason.
C1_ExtMatchesReason ==
  RunReturned =>
    LET r == ret.val.exit_reason
        e == ret.val.ext
    IN  /\ r \in NoPayloadReasons \cup DOMAIN DesignatedExt
        /\ (~e.some) <=> (r \in NoPayloadReasons)
        /\ e.some => (r \in DOMAIN DesignatedExt /\ e.variant = DesignatedExt[r])

\* a halt exit decoded without payload
C1_Witness ==
  /\ RunReturned
  /\ ret.val.exit_reason = "X64Halt"
  /\ ~ret.val.ext.some

\* C2: Register::ty returns a RegisterType, without panicking, for every
\* member of the Register enum.
C2_TyTotal == output.kind # "NoRet" => (output.kind = "Ok" /\ output.val \in RegisterType)

\* the property the lifecycle requires to be set before activation
IsBeforeActivation(prop) == prop.variant = "ProcessorCount"

\* C3: after setup, set_property with a BeforeActivation property returns
\* IncompatiblePropertyAvailibility carrying the property and issues no
\* native call.
C3_LateSetRejected ==
  (op.name = "Partition::set_property" /\ IsBeforeActivation(op.arg)) =>
    /\ ret.kind = "Err"
    /\ ret.val.error = "IncompatiblePropertyAvailibility"
    /\ SameProperty(ret.val.prop, op.arg)
    /\ calls = <<>>

\* the ProcessorCount the hypervisor holds
CommittedCount == FromLE(ReadAt(native.props["ProcessorCount"], 0, 4))

Holders ==
  (IF builder = "live" THEN 1 ELSE 0)
    + arcs
    + (IF partition.st = "live" THEN 1 ELSE 0)
    + Cardinality({v \in VpIds : vps[v].st \in {"live", "fields"}})

\* C5: under every interleaving of the drops, WHvDeletePartition is issued
\* exactly once, and only after the builder/partition and every virtual
\* processor holding the handle have been dropped.
C5_DeleteOnceAfterLastHolder ==
  /\ native.deletes <= 1
  /\ native.deletes = 1 => Holders = 0
  /\ (native.state # "absent" /\ Holders = 0) => native.deletes = 1
  /\ strong = Holders

\* the partition deleted by the release of a virtual processor that outlived
\* the Partition value
C5_Witness ==
  /\ native.deletes = 1
  /\ partition.st = "dropped"
  /\ op.name = "drop(VirtualProcessor.partition_handle)"
  /\ \A v \in VpIds : vps[v].st = "dropped"

RunCompleted == op.name = "VirtualProcessor::run" /\ calls[1].ok

\* the payload of a completed run holds a discriminant that the conversion of
\* the member designated for the reason does not list
ForeignPayloadDiscriminant ==
  LET r == RunExitReason_from(calls[1].arg.context.ExitReason)
  IN  /\ r \in DOMAIN DesignatedExt
      /\ DesignatedExt[r] \in DOMAIN PayloadDiscriminants
      /\ calls[1].arg.context.Anonymous \notin PayloadDiscriminants[DesignatedExt[r]]

\* C6: an exit-reason number outside the recognised set never yields a
\* RunExitContext (decoding panics); a recognised number decodes to the
\* variant with that discriminant, which is the reason of the context
\* returned (none is returned when the payload holds a foreign discriminant).
C6_UnrecognisedReasonIsFatal ==
  RunCompleted =>
    LET n == calls[1].arg.context.ExitReason
    IN  IF n \in RecognisedNumbers
          THEN /\ RunExitReasonDiscriminant[RunExitReason_from(n)] = n
               /\ ret.kind = "Ok" => ret.val.exit_reason = RunExitReason_from(n)
               /\ ret.kind # "Ok" => (ret.kind = "Panic" /\ ForeignPayloadDiscriminant)
               /\ ForeignPayloadDiscriminant => ret.kind = "Panic"
          ELSE ret.kind = "Panic"

\* the number 0x1008 reported by the hypervisor
C6_Witness ==
  /\ RunCompleted
  /\ calls[1].arg.context.ExitReason = 4104
  /\ ret.kind = "Panic"

\* C7: an operation panics only when a native numeric discriminant lies
\* outside the closed set.
C7_PanicOnlyOnForeignDiscriminant ==
  ret.kind = "Panic" =>
    /\ RunCompleted
    /\ \/ calls[1].arg.context.ExitReason \notin RecognisedNumbers
       \/ ForeignPayloadDiscriminant

\* the RegisterVal variant the claim names for a register
ClaimedVariant(r) ==
  CASE r \in GeneralPurposeRegisters \cup ControlRegisters \cup DebugRegisters
            \cup ExtendedControlRegisters \cup MsrRegisters \cup ApicRegisters -> "Reg64"
    [] r \in SegmentRegisters -> "Segment"
    [] r \in TableRegisters -> "Table"
    [] r \in XmmRegisters -> "Reg128"
    [] r \in FpMmxRegisters -> "Fp"
    [] r = "FpControlStatus" -> "FpControlStatus"
    [] r = "XmmControlStatus" -> "XmmControlStatus"
    [] OTHER -> "unclassified"

GetRegistersCompleted == op.name = "VirtualProcessor::get_registers" /\ calls[1].ok

\* the result pairs the i-th register with the value of the claimed variant
\* decoded from the i-th raw value
PairedInOrder(registers, result, raw_values) ==
  /\ Len(result) = Len(registers)
  /\ \A i \in 1..Len(registers) :
       /\ result[i][1] = registers[i]
       /\ result[i][2].variant = ClaimedVariant(registers[i])
       /\ result[i][2].v = DecodeFrom(raw_values[i], WHV_REGISTER_VALUE[ClaimedVariant(registers[i])])

\* C8: for every list of registers, when the native call succeeds
\* get_registers returns a result of the same length and order whose i-th
\* value has the variant of registers[i].
C8_GetRegistersTyped ==
  GetRegistersCompleted =>
    /\ ret.kind = "Ok"
    /\ PairedInOrder(op.arg, ret.val, calls[1].arg.values)

\* the same for the batches get_registers returns from: holds
C8_ReturnedBatchesTyped ==
  (GetRegistersCompleted /\ ret.kind = "Ok") =>
    PairedInOrder(op.arg, ret.val, calls[1].arg.values)

\* the value's variant is not the one of the register's type
Mismatched(pair) == ty(pair[1]) \in RegisterType /\ pair[2].variant # ty(pair[1])

\* C9: set_register / set_registers reject a pair whose value variant
\* differs from the register's type, and issue no native call for it.
C9_MismatchRejected ==
  /\ (op.name = "VirtualProcessor::set_registers"
        /\ \E i \in 1..Len(op.arg) : Mismatched(op.arg[i]))
       => (ret.kind = "Err" /\ calls = <<>>)
  /\ (op.name = "VirtualProcessor::set_register" /\ Mismatched(op.arg))
       => (ret.kind = "Err" /\ calls = <<>>)

\* C10: decoding the encoded payload of a property with the property's own
\* code reconstructs the property, field for field.
C10_PropertyRoundTrip ==
  output.kind # "NoRet" => (output.kind = "Ok" /\ SameProperty(output.val, input))

\* ExceptionExitBitmap with all 64 bits set, round-tripped
C10_Witness ==
  /\ output.kind = "Ok"
  /\ input.variant = "ExceptionExitBitmap"
  /\ input.v = <<[i \in 1..8 |-> 255]>>
  /\ output.val.v = input.v

Decoded == output.kind = "Ok" /\ input.code \in PartitionPropertyCode

\* C11: the variant from_union(c, raw) yields reports the code c, for each of
\* the 30 codes and every raw payload it decodes; and no two variants report
\* the same code.
C11_CodeAgreesWithVariant ==
  /\ Decoded => code(output.val) = input.code
  /\ \A v1, v2 \in PartitionPropertyVariants :
       code(Property(v1, <<>>)) = code(Property(v2, <<>>)) => v1 = v2
  /\ {code(Property(v, <<>>)) : v \in PartitionPropertyVariants} = PartitionPropertyCode

\* CpuCap decoded from a payload of differing bytes
C11_Witness ==
  /\ Decoded
  /\ input.code = "CpuCap"
  /\ input.raw_val = RawProperty(256)
  /\ code(output.val) = "CpuCap"

\* C12: from_union(code, raw) reads the union member of the same name as the
\* code, for each of the 30 codes.
C12_ReadsOwnMember == Decoded => output.val.member = input.code

\* the extension tag of a decoded exit context
ExtTag(context) == IF context.ext.some THEN context.ext.variant ELSE "None"

\* C13: the extension variant depends on the exit reason alone: the context
\* returned and the decoding of the same raw context with any other payload
\* carry the same tag, and no other exit reason decodes to the variant of
\* the context returned.
C13_ExtSelectedByReasonAlone ==
  RunReturned =>
    LET raw == calls[1].arg.context
    IN  /\ \A payload \in ExitPayloads :
             LET other == RunExitContext_from([raw EXCEPT !.Anonymous = payload])
             IN  other.kind = "Ok" => ExtTag(other.val) = ExtTag(ret.val)
        /\ \A n \in RecognisedNumbers \ {raw.ExitReason}, payload \in ExitPayloads :
             LET other == RunExitContext_from(
                            [raw EXCEPT !.ExitReason = n, !.Anonymous = payload])
             IN  (other.kind = "Ok" /\ other.val.ext.some /\ ret.val.ext.some)
                   => other.val.ext.variant # ret.val.ext.variant

\* a memory access exit whose payload reads as 1
C13_Witness ==
  /\ RunReturned
  /\ ret.val.exit_reason = "MemoryAccess"
  /\ calls[1].arg.context.Anonymous = 1
  /\ ret.val.ext.variant = "MemoryAccess"

C15_PartitionNeedsProcessorCount ==
  partition.st = "live" => "ProcessorCount" \in native.written

\* the native calls reserved to a partition that has been set up
ActiveOnlyCalls ==
  { "WHvMapGpaRange", "WHvCreateVirtualProcessor", "WHvRunVirtualProcessor",
    "WHvGetVirtualProcessorRegisters", "WHvSetVirtualProcessorRegisters" }

\* C16: WHvSetupPartition is issued at most once on the handle; every
\* PartitionBuilder::property write precedes it; no map, create-vCPU, run or
\* register call is issued before setup has succeeded; once set up, the
\* partition has no builder left to return to.
C16_OneShotLifecycle ==
  /\ native.setups <= 1
  /\ op.name = "PartitionBuilder::property" => native.setups = 0
  /\ \A i \in 1..Len(calls) :
       calls[i].fn \in ActiveOnlyCalls => native.state = "setup"
  /\ native.state = "setup" => builder # "live"

\* the native calls of the operation performed last that went to `fn`
CallsTo(fn) == {i \in DOMAIN calls : calls[i].fn = fn}

\* C17: map_memory_region(region) issues one WHvMapGpaRange call, and its
\* arguments are the region's host address, guest address, size and flags.
\* When the call succeeds the region is appended to the partition's
\* memory_regions, which owns it from then on; when it fails memory_regions
\* is what it was before the call and the partition does not own the region.
C17_MapMemoryRegion ==
  [][ op'.name = "Partition::map_memory_region" =>
        LET r == op'.arg
            map == calls'[1]
        IN  /\ map.fn = "WHvMapGpaRange"
            /\ \A i \in DOMAIN calls' : calls'[i].fn = "WHvMapGpaRange" => i = 1
            /\ map.arg.address = regions[r].address
            /\ map.arg.guest_address = regions[r].guest_address
            /\ map.arg.size = regions[r].size
            /\ map.arg.flags = regions[r].flags
            /\ IF map.ok
                 THEN /\ ret'.kind = "Ok"
                      /\ partition'.memory_regions = Append(partition.memory_regions, r)
                      /\ regions'[r].st = "mapped"
                 ELSE /\ ret'.kind # "Ok"
                      /\ partition'.memory_regions = partition.memory_regions
                      /\ regions'[r].st # "mapped"
  ]_<<partition, regions>>

\* a second region was accepted after a first: the collection holds both
C17_Witness ==
  /\ op.name = "Partition::map_memory_region"
  /\ ret.kind = "Ok"
  /\ calls[1].ok
  /\ Len(partition.memory_regions) = 2
  /\ partition.memory_regions[2] = op.arg

\* the release calls a MemoryRegion value has received, by operation
Releases(memory_region) ==
  [VirtualFree |-> memory_region.frees, UnmapViewOfFile |-> memory_region.unmaps]

\* C18: every MemoryRegion is released exactly once, by VirtualFree when its
\* backing is Volatile and by UnmapViewOfFile when it is File.  A region the
\* caller still owns, or one held in the memory_regions of a live
\* partition, has not been released; a region whose owner is gone (dropped
\* by the caller, rejected by map_memory_region, or held by a partition that
\* was dropped) has received one release call, of the operation matching
\* its backing, and none of the other.
C18_ReleasedExactlyOnce ==
  \A r \in RegionIds :
    LET region == regions[r]
        held == \E i \in DOMAIN partition.memory_regions : partition.memory_regions[i] = r
    IN  /\ region.st \in {"none", "owned", "mapped"} =>
             region.frees = 0 /\ region.unmaps = 0
        /\ region.st = "dropped" =>
             /\ region.backing = "Volatile" => region.frees = 1 /\ region.unmaps = 0
             /\ region.backing = "File" => region.unmaps = 1 /\ region.frees = 0
        /\ region.st = "mapped" <=> held
        /\ held => partition.st = "live"
        /\ Cardinality({i \in DOMAIN partition.memory_regions :
                          partition.memory_regions[i] = r}) <= 1

\* a partition holding a file-backed and a volatile region was dropped, and
\* its drop released both
C18_Witness ==
  /\ op.name = "drop(Partition)"
  /\ Cardinality(CallsTo("VirtualFree")) = 1
  /\ Cardinality(CallsTo("UnmapViewOfFile")) = 1
  /\ \E r \in RegionIds, q \in RegionIds :
       /\ regions[r].st = "dropped" /\ regions[r].backing = "File"
       /\ Releases(regions[r]) = [VirtualFree |-> 0, UnmapViewOfFile |-> 1]
       /\ regions[q].st = "dropped" /\ regions[q].backing = "Volatile"
       /\ Releases(regions[q]) = [VirtualFree |-> 1, UnmapViewOfFile |-> 0]

\* C19: encoding a RegisterVal and decoding the result with the register
\* type named as its variant gives the value back, for each of the 15
\* variants; and from_union(T, raw) yields the variant named as T, whatever
\* the raw value holds.
C19_RegisterValRoundTrip ==
  output.kind = "Ok" =>
    /\ output.val.by = "roundtrip" =>
         /\ output.val.value.variant = input.value.variant
         /\ output.val.value.v = input.value.v
    /\ output.val.by = "from_union" =>
         output.val.value.variant = input.ty

\* an FpControlStatus value with distinct bytes in every field came back
\* through the union, whose member has a reserved byte between its fields
C19_Witness ==
  /\ output.kind = "Ok"
  /\ output.val.by = "roundtrip"
  /\ input.value.variant = "FpControlStatus"
  /\ input.value.v[3] # input.value.v[4]
  /\ input.value.v[1] # <<0, 0>>
  /\ output.val.value.v = input.value.v

\* the registers of the batch the operation performed last was called with,
\* in the caller's order
BatchRegisters ==
  CASE op.name = "VirtualProcessor::get_registers" -> op.arg
    [] op.name = "VirtualProcessor::get_register" -> <<op.arg>>
    [] op.name = "VirtualProcessor::set_registers" -> [i \in 1..Len(op.arg) |-> op.arg[i][1]]
    [] op.name = "VirtualProcessor::set_register" -> <<op.arg[1]>>

\* the values of the batch of a set operation, in the caller's order
BatchValues ==
  CASE op.name = "VirtualProcessor::set_registers" -> [i \in 1..Len(op.arg) |-> op.arg[i][2]]
    [] op.name = "VirtualProcessor::set_register" -> <<op.arg[2]>>

\* C20: get_registers and set_registers issue exactly one native call,
\* WHvGetVirtualProcessorRegisters or WHvSetVirtualProcessorRegisters, for
\* the whole batch, whatever its length (a length the native u32 count can
\* hold): the names array and the values array have the length of the batch,
\* the names are the caller's registers in the caller's order, and for a set
\* the values are the caller's values in that order.  get_register and
\* set_register issue exactly one such call, for a batch of length 1.
C20_OneCallPerBatch ==
  LET getting == op.name \in {"VirtualProcessor::get_registers", "VirtualProcessor::get_register"}
      setting == op.name \in {"VirtualProcessor::set_registers", "VirtualProcessor::set_register"}
      single == op.name \in {"VirtualProcessor::get_register", "VirtualProcessor::set_register"}
  IN  getting \/ setting =>
        /\ Len(calls) = 1
        /\ getting => calls[1].fn = "WHvGetVirtualProcessorRegisters"
        /\ setting => calls[1].fn = "WHvSetVirtualProcessorRegisters"
        /\ calls[1].arg.count = Len(BatchRegisters)
        /\ Len(calls[1].arg.names) = Len(BatchRegisters)
        /\ Len(calls[1].arg.values) = Len(BatchRegisters)
        /\ single => calls[1].arg.count = 1
        /\ \A i \in 1..Len(BatchRegisters) :
             /\ calls[1].arg.names[i] = WHV_REGISTER_NAME_from(BatchRegisters[i])
             /\ setting => calls[1].arg.values[i] = WHV_REGISTER_VALUE_from(BatchValues[i])

\* two different registers were written by one native call carrying both
C20_Witness ==
  /\ op.name = "VirtualProcessor::set_registers"
  /\ Len(op.arg) = 2
  /\ op.arg[1][1] # op.arg[2][1]
  /\ Len(calls) = 1
  /\ calls[1].arg.count = 2
  /\ calls[1].arg.names = <<op.arg[1][1], op.arg[2][1]>>

\* the native calls whose failure the spec requires an operation to return
\* (create partition or vCPU, get/set property, setup, map memory, run,
\* get/set registers)
SubstrateCalls ==
  { "WHvCreatePartition", "WHvSetPartitionProperty", "WHvSetupPartition",
    "WHvGetPartitionProperty", "WHvCreateVirtualProcessor", "WHvMapGpaRange",
    "WHvRunVirtualProcessor", "WHvGetVirtualProcessorRegisters",
    "WHvSetVirtualProcessorRegisters" }

\* the native calls issued by the drop of a value an operation consumed
ReleasingCalls == {"WHvDeletePartition", "WHvDeleteVirtualProcessor", "VirtualFree", "UnmapViewOfFile"}

\* C21: when a native call issued by a public operation returns a failure,
\* the operation returns Error::Windows, the failed call is not issued
\* again, and no native call follows it within the operation other than the
\* release of the values the operation consumed.
C21_NativeFailureReturned ==
  \A i \in DOMAIN calls :
    calls[i].fn \in SubstrateCalls /\ ~calls[i].ok =>
      /\ ret.kind = "Err"
      /\ ret.val.error = "Windows"
      /\ \A j \in DOMAIN calls : j # i => calls[j].fn # calls[i].fn
      /\ \A j \in DOMAIN calls : j > i => calls[j].fn \in ReleasingCalls

\* the vendor number WHvGetCapability stored is outside ProcessorVendor
ForeignVendor ==
  /\ op.arg = "ProcessorVendor"
  /\ EnumUnreachable(ReadAt(calls[1].arg.cap, 0, 4))

C23_FromBytesRegion ==
  op.name = "MemoryRegion::from_bytes" =>
    /\ ret.kind = "Ok"
    /\ regions[ret.val].address # 0
    /\ regions[ret.val].guest_address = op.arg[1]
    /\ regions[ret.val].flags = op.arg[2]
    /\ regions[ret.val].size = op.arg[3]
    /\ regions[ret.val].backing = "Volatile"

\* the part of C23 the code keeps: a region from_bytes returns has the size
\* of the slice, the guest address and flags given, and backing Volatile
C23_FromBytesFields ==
  op.name = "MemoryRegion::from_bytes" /\ ret.kind = "Ok" =>
    /\ regions[ret.val].guest_address = op.arg[1]
    /\ regions[ret.val].flags = op.arg[2]
    /\ regions[ret.val].size = op.arg[3]
    /\ regions[ret.val].backing = "Volatile"

\* C24: a successful MemoryRegion::from_file(guest_address, flags, file)
\* returns a region whose size is the length of the file in bytes, wherever
\* the file's cursor stands (12 for the file holding "Hello world\n"), whose
\* backing is File and whose guest address and flags are the ones given.
C24_FromFileRegion ==
  op.name = "MemoryRegion::from_file" /\ ret.kind = "Ok" =>
    /\ regions[ret.val].size = op.arg[3].len
    /\ regions[ret.val].backing = "File"
    /\ regions[ret.val].guest_address = op.arg[1]
    /\ regions[ret.val].flags = op.arg[2]

\* the file of 12 bytes, its cursor at the end, gave a region of size 12
C24_Witness ==
  /\ op.name = "MemoryRegion::from_file"
  /\ ret.kind = "Ok"
  /\ op.arg[3] = [len |-> 12, pos |-> 12]
  /\ regions[ret.val].size = 12
  /\ regions[ret.val].backing = "File"

\* the native calls that take the partition handle
HandleCalls ==
  (SubstrateCalls \ {"WHvCreatePartition"}) \cup {"WHvDeleteVirtualProcessor", "WHvDeletePartition"}

\* C25: no native call is issued on the partition handle after its
\* WHvDeletePartition.  Once the partition is deleted, the only calls on the
\* handle among those of the operation performed last are the delete itself
\* and calls that precede it within the same operation: the
\* WHvDeleteVirtualProcessor of every virtual processor, and every run,
\* register, property and create call, came strictly before.
C25_NothingAfterDelete ==
  native.state = "deleted" =>
    \A i \in DOMAIN calls :
      calls[i].fn \in HandleCalls =>
        \/ /\ calls[i].fn = "WHvDeletePartition"
           /\ \A j \in DOMAIN calls : calls[j].fn = "WHvDeletePartition" => j = i
        \/ \E j \in DOMAIN calls : j > i /\ calls[j].fn = "WHvDeletePartition"

\* two virtual processors ran or were read, then were dropped after the
\* Partition; the release of the last one deleted the partition
C25_Witness ==
  /\ native.state = "deleted"
  /\ native.vcpus = {}
  /\ op.name = "drop(VirtualProcessor.partition_handle)"
  /\ calls = <<Call("WHvDeletePartition", <<>>, TRUE)>>
  /\ Cardinality({v \in VpIds : vps[v].st = "dropped"}) >= 2

\* C26: the host backing of a region accepted by map_memory_region is
\* released only after the native partition it was mapped into has been
\* deleted, also when the Partition is dropped while virtual processors
\* created from it are alive.  The regions a Partition holds are released by
\* its drop: every VirtualFree / UnmapViewOfFile of that drop comes after a
\* WHvDeletePartition.
C26_ReleaseAfterPartitionDelete ==
  op.name = "drop(Partition)" =>
    \A i \in DOMAIN calls :
      calls[i].fn \in {"VirtualFree", "UnmapViewOfFile"} =>
        /\ native.state = "deleted"
        /\ \E j \in DOMAIN calls : j < i /\ calls[j].fn = "WHvDeletePartition"

\* when the Partition holds the last reference, its drop deletes the native
\* partition before it releases the regions (arc_handle is declared first)
C26_LastHolderDeletesFirst ==
  op.name = "drop(Partition)" /\ native.state = "deleted" =>
    \A i \in DOMAIN calls :
      calls[i].fn \in {"VirtualFree", "UnmapViewOfFile"} =>
        \E j \in DOMAIN calls : j < i /\ calls[j].fn = "WHvDeletePartition"

\* the last holder, a Partition with a mapped region, was dropped
C26_LastHolderCase ==
  /\ op.name = "drop(Partition)"
  /\ native.state = "deleted"
  /\ Len(calls) >= 2
  /\ calls[1].fn = "WHvDeletePartition"

\* C27: converting a PartitionHandle into a raw WHV_PARTITION_HANDLE issues
\* no WHvDeletePartition: the raw handle the conversion returns refers to a
\* partition that still exists.
C27_IntoRawKeepsPartition ==
  op.name = "WHV_PARTITION_HANDLE::from" =>
    /\ \A i \in DOMAIN calls : calls[i].fn # "WHvDeletePartition"
    /\ native.state # "deleted"
    /\ native.deletes = 0

\* C28: every WHvDeleteVirtualProcessor issued by the drop of a
\* VirtualProcessor names a processor that was created in the hypervisor for
\* that index and has not been deleted yet, however the VirtualProcessor was
\* obtained; and no two live VirtualProcessor values share an index.
C28_DeleteNamesCreatedVp ==
  /\ op.name = "drop(VirtualProcessor)" =>
       /\ calls[1].fn = "WHvDeleteVirtualProcessor"
       /\ calls[1].ok
  /\ \A v \in VpIds, w \in VpIds :
       v # w /\ vps[v].st = "live" /\ vps[w].st = "live" => vps[v].index # vps[w].index
  /\ \A v \in VpIds : vps[v].st = "live" => vps[v].index \in native.vcpus

BuilderStep == op.name \in {"PartitionBuilder::property", "PartitionBuilder::setup"}

\* C29: when PartitionBuilder::property or PartitionBuilder::setup returns an
\* error, no Partition exists, the builder is consumed and the partition made
\* by PartitionBuilder::new has been deleted exactly once, by the single
\* WHvDeletePartition that follows the failed native call; when setup
\* succeeds, the builder is consumed, the Partition exists and the
\* consumption of the builder issues no WHvDeletePartition.
C29_BuilderErrorDeletesOnce ==
  /\ (BuilderStep /\ ret.kind = "Err") =>
       /\ partition.st = "none"
       /\ builder = "consumed"
       /\ native.state = "deleted"
       /\ native.deletes = 1
       /\ Len(calls) = 2
       /\ ~calls[1].ok
       /\ calls[2].fn = "WHvDeletePartition"
  /\ (op.name = "PartitionBuilder::setup" /\ ret.kind = "Ok") =>
       /\ partition.st = "live"
       /\ builder = "consumed"
       /\ native.state = "setup"
       /\ native.deletes = 0
       /\ calls = <<Call("WHvSetupPartition", <<>>, TRUE)>>
  /\ (op.name = "PartitionBuilder::property" /\ ret.kind = "Ok") =>
       /\ builder = "live"
       /\ native.deletes = 0

\* WHvSetupPartition failed after a property had been written: the builder
\* is gone and the partition deleted
C29_Witness ==
  /\ op.name = "PartitionBuilder::setup"
  /\ ret.kind = "Err"
  /\ native.written # {}
  /\ native.deletes = 1
  /\ builder = "consumed"

\* C30: the named flags of ExtendedVmExits are independent bits: the union
\* of a set of named flags, and the PartitionProperty::ExtendedVmExits
\* payload made of it, contains a named flag only if the flag is in the set.
C30_NamedFlagsIndependent ==
  output.kind = "Ok" => output.val.contains \subseteq input

\* what does hold: every flag of the set is contained in the union
C30_UnionContainsItsFlags ==
  output.kind = "Ok" => input \subseteq output.val.contains

====
